---------------------------- MODULE Spec2Model ----------------------------
(***************************************************************************)
(* Model of project-context-to-md-file.                                    *)
(*                                                                         *)
(* Part I  : the generation orchestrator of src/src/index.ts (provider     *)
(*           initialisation, startup generation, watcher callback with the *)
(*           debounce timer, the periodic timer, generateMarkdown and      *)
(*           writeMarkdownFile).                                           *)
(*                                                                         *)
(* Paths and file names are strings; String.includes, endsWith and         *)
(* path.basename are computed on their characters as the code computes     *)
(* them.                                                                   *)
(*                                                                         *)
(* Time is in milliseconds.  Timers fire at their deadline: time does not  *)
(* advance past the deadline of an armed timer (Advance).  The await of    *)
(* the provider call is the only suspension point of a generation run; the *)
(* continuation after it (flag update, file write, release of the guard)   *)
(* runs in consecutive microtasks and is one step.  The output directory   *)
(* is taken to be writable (fs.writeFileSync succeeds).                    *)
(***************************************************************************)
EXTENDS Integers, Sequences, FiniteSets, TLC

VARIABLES
    pc,                       \* position of main(): "start", "initialRun", "watching", "exited"
    exitCode,                 \* process exit status, -1 while the process runs
    config,                   \* the loaded Config (provider, apiKey, region, interval, outputFile)
    initialContextGenerated,  \* index.ts:56
    outputExists,             \* fs.existsSync(outputPath)
    outputDoc,                \* content of the output file
    runs,                     \* generation runs in flight (writeMarkdownFile awaiting the provider)
    started,                  \* number of generation runs started so far
    writes,                   \* number of writes of the output file so far
    debounceTimer,            \* index.ts:177, {} for null or {d}, the handle of the setTimeout due at d
    timeouts,                 \* deadlines of the armed, not yet fired or cleared, setTimeout timers
    isProcessing,             \* index.ts:178
    intervalNext,             \* next deadline of setInterval, -1 when not set up
    watcherOn,                \* chokidar watcher set up
    now,                      \* clock, ms
    burst,                    \* history: the current burst of non-excluded change events
    lastEvent,                \* history: the path of the last watcher event, "" if none
    call,                     \* Part II: the call under evaluation (function and arguments)
    ret,                      \* Part II: its return value, NoRet before it returns
    prev                      \* Part II: the call made before this one, with its return value

vars == << pc, exitCode, config, initialContextGenerated, outputExists, outputDoc,
           runs, started, writes, debounceTimer, timeouts, isProcessing,
           intervalNext, watcherOn, now, burst, lastEvent, call, ret, prev >>

---------------------------------------------------------------------------
(* Bounds of the model *)

MaxTime == 2000       \* the clock stops here
MaxRuns == 3          \* generation runs started in one execution
EventGap == 200       \* time between two steps of the clock (watcher events arrive at these instants)

(* Program constants *)

DebounceDelay == 1000

---------------------------------------------------------------------------
(* Strings as sequences of characters *)

Includes(s, sub) ==
    \E i \in 0..(Len(s) - Len(sub)) : SubSeq(s, i + 1, i + Len(sub)) = sub

StartsWith(s, pre) ==
    Len(pre) <= Len(s) /\ SubSeq(s, 1, Len(pre)) = pre

EndsWith(s, suf) ==
    Len(suf) <= Len(s) /\ SubSeq(s, Len(s) - Len(suf) + 1, Len(s)) = suf

\* index of the last "/" of p, 0 if there is none
LastSlash(p) ==
    LET S == {i \in 1..Len(p) : SubSeq(p, i, i) = "/"}
    IN  IF S = {} THEN 0 ELSE CHOOSE i \in S : \A j \in S : j <= i

\* path.basename for paths without a trailing separator
basename(p) == SubSeq(p, LastSlash(p) + 1, Len(p))

\* path.dirname
dirname(p) == IF LastSlash(p) <= 1 THEN SubSeq(p, 1, LastSlash(p))
              ELSE SubSeq(p, 1, LastSlash(p) - 1)

\* process.cwd()
cwd == "/p"

\* path.join(dir, file) for normalised operands
join(dir, file) == dir \o "/" \o file

\* path.resolve for normalised paths (no "." or ".." segments)
resolve(p) == IF StartsWith(p, "/") THEN p ELSE join(cwd, p)

\* the configuration file name, index.ts:171 and index.ts:186
ContextEnv == ".context.env"

---------------------------------------------------------------------------
(* Inputs *)

OutRoot == "o.md"
OutSub  == "d/o.md"


\* paths the watcher reports (relative to ".", the watched directory)
EventPaths == { OutRoot, OutSub, ContextEnv, "a.ts" }

\* loaded configurations: the provider, whether its credential is set, config.interval
\* (any integer > 0, config.ts:153-156 and index.ts:31-35) and config.outputFile
Configs ==
    { [provider |-> "ollama",  apiKey |-> FALSE, region |-> FALSE,
       interval |-> 600,  outputFile |-> OutRoot],
      [provider |-> "openai",  apiKey |-> FALSE, region |-> FALSE,
       interval |-> 600,  outputFile |-> OutRoot],
      [provider |-> "openai",  apiKey |-> TRUE,  region |-> FALSE,
       interval |-> 1400, outputFile |-> OutSub],
      [provider |-> "bedrock", apiKey |-> FALSE, region |-> FALSE,
       interval |-> 1400, outputFile |-> OutSub],
      [provider |-> "bedrock", apiKey |-> FALSE, region |-> TRUE,
       interval |-> 600,  outputFile |-> OutSub] }

---------------------------------------------------------------------------
(* index.ts *)

\* index.ts:51
outputPath == resolve(config.outputFile)

\* index.ts:52
updateInterval == config.interval

\* initialize without the check of the credential
initialize_NoCredentialCheck(cfg, reachable) ==
    CASE cfg.provider = "ollama"  -> reachable
      [] cfg.provider = "openai"  -> reachable
      [] cfg.provider = "groq"    -> reachable
      [] cfg.provider = "bedrock" -> TRUE

\* LLMProvider.initialize of the provider createLLMProvider selects;
\* reachable: the provider's service answers the connection test
initialize(cfg, reachable) ==
    CASE cfg.provider = "ollama"  -> reachable
      [] cfg.provider = "openai"  -> cfg.apiKey /\ reachable
      [] cfg.provider = "groq"    -> cfg.apiKey /\ reachable
      [] cfg.provider = "bedrock" -> cfg.region

\* generateMarkdown with the test of the output file inverted
generationMode_Inverted(initialGeneration, exists) ==
    IF initialGeneration THEN "initial"
    ELSE IF ~exists THEN "incremental"
    ELSE "fallback"

\* the branch generateMarkdown(initialGeneration) takes
generationMode(initialGeneration, exists) ==
    IF initialGeneration THEN "initial"
    ELSE IF exists THEN "incremental"
    ELSE "fallback"

\* does the branch call collectProjectContext (a full collection of the project)
collectsFull(mode) == mode \in {"initial", "fallback"}

\* what the context string that generateMarkdown hands to the provider is made of,
\* index.ts:70, 87-97, 101-102: the full collection, or for an incremental run the name,
\* the version and the description of the project with the time (existingContent is
\* read at index.ts:81 and not used)
contextParts(mode) ==
    IF mode = "incremental"
    THEN { "projectName", "projectVersion", "projectDescription", "timestamp" }
    ELSE { "collection" }

\* the early return without the test of the configuration file
skipEvent_OutputOnly(filePath) ==
    \/ filePath = resolve(config.outputFile)
    \/ Includes(filePath, basename(resolve(config.outputFile)))

\* the condition of the early return of the watcher callback, index.ts:186
skipEvent(filePath) ==
    \/ filePath = outputPath
    \/ Includes(filePath, basename(outputPath))
    \/ Includes(filePath, ContextEnv)

\* history of the current burst: the time of its last event, its number of events
\* (counted up to 2), whether one of its events arrived while a run was in flight,
\* whether its timer was cleared by an event of a skipped path, whether its timer has
\* fired, whether a run was in flight and whether isProcessing was set at the firing,
\* the number of runs its timer started and when
NoBurst == [last |-> -1, size |-> 0, duringRun |-> FALSE, cancelled |-> FALSE,
            fired |-> FALSE, busyAtFire |-> FALSE, heldAtFire |-> FALSE,
            runs |-> 0, startedAt |-> -1]

\* the burst after a non-excluded event at the current instant
NextBurst(pending) ==
    [last |-> now,
     size |-> IF pending /\ burst.size < 2 THEN burst.size + 1
              ELSE IF pending THEN burst.size ELSE 1,
     duringRun |-> (pending /\ burst.duringRun) \/ runs # {},
     cancelled |-> FALSE, fired |-> FALSE, busyAtFire |-> FALSE, heldAtFire |-> FALSE,
     runs |-> 0, startedAt |-> -1]

\* the burst after its timer fired
FiredBurst(startsRun) ==
    [burst EXCEPT !.fired = TRUE, !.busyAtFire = (runs # {}), !.heldAtFire = isProcessing,
                  !.runs = IF startsRun THEN @ + 1 ELSE @,
                  !.startedAt = IF startsRun THEN now ELSE @]

NoDoc == [kind |-> "none", by |-> 0, timestamp |-> -1]

\* Part II is idle while the orchestrator runs
NoCall == [fn |-> "none"]
NoRet == [done |-> FALSE]
NoPrev == [call |-> NoCall, ret |-> NoRet]

Init ==
    /\ pc = "start"
    /\ exitCode = -1
    /\ config \in Configs
    /\ initialContextGenerated = FALSE
    /\ outputExists \in BOOLEAN
    /\ outputDoc = NoDoc
    /\ runs = {}
    /\ started = 0
    /\ writes = 0
    /\ debounceTimer = {}
    /\ timeouts = {}
    /\ isProcessing = FALSE
    /\ intervalNext = -1
    /\ watcherOn = FALSE
    /\ now = 0
    /\ burst = NoBurst
    /\ lastEvent = ""
    /\ call = NoCall
    /\ ret = NoRet
    /\ prev = NoPrev

\* writeMarkdownFile up to the await of the provider call:
\* generateMarkdown(!initialContextGenerated) chooses its branch and builds the prompt
writeMarkdownFileStart(trigger) ==
    LET mode == generationMode(~initialContextGenerated, outputExists)
    IN  /\ runs' = runs \cup { [id |-> started + 1, trigger |-> trigger, mode |-> mode,
                               collected |-> collectsFull(mode)] }
        /\ started' = started + 1

\* main() that does not await the startup writeMarkdownFile before it sets up the
\* watcher and the periodic timer
InitializeProvider_NoAwait(reachable) ==
    /\ pc = "start"
    /\ IF initialize(config, reachable)
       THEN /\ pc' = "watching"
            /\ writeMarkdownFileStart("startup")
            /\ watcherOn' = TRUE
            /\ intervalNext' = now + updateInterval
            /\ UNCHANGED exitCode
       ELSE /\ pc' = "exited"
            /\ exitCode' = 1
            /\ UNCHANGED << runs, started, watcherOn, intervalNext >>
    /\ UNCHANGED << config, initialContextGenerated, outputExists, outputDoc, writes,
                    debounceTimer, timeouts, isProcessing, now, burst, lastEvent,
                    call, ret, prev >>

\* main(), index.ts:147-159: provider initialised, or process.exit(1)
InitializeProvider(reachable) ==
    /\ pc = "start"
    /\ IF initialize(config, reachable)
       THEN /\ pc' = "initialRun"
            /\ writeMarkdownFileStart("startup")            \* index.ts:162
            /\ UNCHANGED exitCode
       ELSE /\ pc' = "exited"
            /\ exitCode' = 1
            /\ UNCHANGED << runs, started >>
    /\ UNCHANGED << config, initialContextGenerated, outputExists, outputDoc, writes,
                    debounceTimer, timeouts, isProcessing, intervalNext, watcherOn,
                    now, burst, lastEvent,
                    call, ret, prev >>

\* generateMarkdown without its try/catch: the exception of the provider call reaches
\* the catch of writeMarkdownFile and nothing is written
ProviderReturns_NoCatch(r, outcome) ==
    /\ r \in runs
    /\ runs' = runs \ {r}
    /\ initialContextGenerated' =
          IF r.mode = "initial" /\ outcome = "ok" THEN TRUE ELSE initialContextGenerated
    /\ IF outcome = "ok"
       THEN /\ outputExists' = TRUE
            /\ outputDoc' = [kind |-> "generated", by |-> r.id, timestamp |-> -1]
            /\ writes' = writes + 1
       ELSE UNCHANGED << outputExists, outputDoc, writes >>
    /\ isProcessing' = IF r.trigger = "debounce" THEN FALSE ELSE isProcessing
    /\ IF r.trigger = "startup"
       THEN /\ pc' = "watching"
            /\ watcherOn' = TRUE
            /\ intervalNext' = now + updateInterval
       ELSE UNCHANGED << pc, watcherOn, intervalNext >>
    /\ UNCHANGED << exitCode, config, started, debounceTimer, timeouts, now, burst,
                    lastEvent,
                    call, ret, prev >>

\* the setTimeout callback that releases the guard only when its run succeeded
ProviderReturns_KeepGuardOnThrow(r, outcome) ==
    /\ r \in runs
    /\ runs' = runs \ {r}
    /\ initialContextGenerated' =
          IF r.mode = "initial" /\ outcome = "ok" THEN TRUE ELSE initialContextGenerated
    /\ outputExists' = TRUE
    /\ outputDoc' = IF outcome = "ok"
                    THEN [kind |-> "generated", by |-> r.id, timestamp |-> -1]
                    ELSE [kind |-> "error", by |-> r.id, timestamp |-> now]
    /\ writes' = writes + 1
    /\ isProcessing' = IF r.trigger = "debounce" /\ outcome = "ok" THEN FALSE ELSE isProcessing
    /\ IF r.trigger = "startup"
       THEN /\ pc' = "watching"
            /\ watcherOn' = TRUE
            /\ intervalNext' = now + updateInterval
       ELSE UNCHANGED << pc, watcherOn, intervalNext >>
    /\ UNCHANGED << exitCode, config, started, debounceTimer, timeouts, now, burst,
                    lastEvent,
                    call, ret, prev >>

\* the rest of writeMarkdownFile after the provider call of run r returned (outcome "ok")
\* or threw (outcome "throw"), and the continuation of its caller
ProviderReturns(r, outcome) ==
    /\ r \in runs
    /\ runs' = runs \ {r}
    /\ initialContextGenerated' =
          IF r.mode = "initial" /\ outcome = "ok" THEN TRUE ELSE initialContextGenerated
    /\ outputExists' = TRUE                                  \* index.ts:130
    /\ outputDoc' = IF outcome = "ok"
                    THEN [kind |-> "generated", by |-> r.id, timestamp |-> -1]
                    ELSE [kind |-> "error", by |-> r.id, timestamp |-> now]
    /\ writes' = writes + 1
    /\ isProcessing' = IF r.trigger = "debounce" THEN FALSE ELSE isProcessing   \* index.ts:197
    /\ IF r.trigger = "startup"
       THEN /\ pc' = "watching"                              \* index.ts:165-204
            /\ watcherOn' = TRUE
            /\ intervalNext' = now + updateInterval
       ELSE UNCHANGED << pc, watcherOn, intervalNext >>
    /\ UNCHANGED << exitCode, config, started, debounceTimer, timeouts, now, burst,
                    lastEvent,
                    call, ret, prev >>

\* the watcher callback without clearTimeout: a superseded timer stays armed
WatcherEvent_NoClear(filePath) ==
    /\ watcherOn
    /\ LET pending == debounceTimer \cap timeouts # {}
       IN  IF skipEvent(filePath)
           THEN /\ UNCHANGED << timeouts, debounceTimer, burst >>
           ELSE /\ timeouts' = timeouts \cup {now + DebounceDelay}
                /\ debounceTimer' = {now + DebounceDelay}
                /\ burst' = NextBurst(pending)
    /\ lastEvent' = filePath
    /\ UNCHANGED << pc, exitCode, config, initialContextGenerated, outputExists, outputDoc,
                    runs, started, writes, isProcessing, intervalNext, watcherOn, now,
                    call, ret, prev >>

\* the "all" callback of the watcher, index.ts:180-199
WatcherEvent(filePath) ==
    /\ watcherOn
    /\ LET cleared == timeouts \ debounceTimer              \* index.ts:181-183
           pending == debounceTimer \cap timeouts # {}
       IN  IF skipEvent(filePath)
           THEN /\ timeouts' = cleared
                /\ burst' = IF pending THEN [burst EXCEPT !.cancelled = TRUE] ELSE burst
                /\ UNCHANGED debounceTimer
           ELSE /\ timeouts' = cleared \cup {now + DebounceDelay}
                /\ debounceTimer' = {now + DebounceDelay}
                /\ burst' = NextBurst(pending)
    /\ lastEvent' = filePath
    /\ UNCHANGED << pc, exitCode, config, initialContextGenerated, outputExists, outputDoc,
                    runs, started, writes, isProcessing, intervalNext, watcherOn, now,
                    call, ret, prev >>

\* the setTimeout callback that queues its trigger when a run holds the guard: it arms
\* the timer again instead of returning
DebounceFire_Requeue ==
    /\ \E t \in timeouts :
          /\ t <= now
          /\ timeouts' = IF isProcessing THEN (timeouts \ {t}) \cup {now + DebounceDelay}
                         ELSE timeouts \ {t}
    /\ IF isProcessing
       THEN /\ burst' = FiredBurst(FALSE)
            /\ UNCHANGED << runs, started, isProcessing >>
       ELSE /\ started < MaxRuns
            /\ isProcessing' = TRUE
            /\ writeMarkdownFileStart("debounce")
            /\ burst' = FiredBurst(TRUE)
    /\ UNCHANGED << pc, exitCode, config, initialContextGenerated, outputExists, outputDoc,
                    writes, debounceTimer, intervalNext, watcherOn, now, lastEvent,
                    call, ret, prev >>

\* the setTimeout callback, index.ts:191-198, up to its await
DebounceFire ==
    /\ \E t \in timeouts :
          /\ t <= now
          /\ timeouts' = timeouts \ {t}
    /\ IF isProcessing                                      \* index.ts:192
       THEN /\ burst' = FiredBurst(FALSE)
            /\ UNCHANGED << runs, started, isProcessing >>
       ELSE /\ started < MaxRuns
            /\ isProcessing' = TRUE
            /\ writeMarkdownFileStart("debounce")
            /\ burst' = FiredBurst(TRUE)
    /\ UNCHANGED << pc, exitCode, config, initialContextGenerated, outputExists, outputDoc,
                    writes, debounceTimer, intervalNext, watcherOn, now, lastEvent,
                    call, ret, prev >>

\* the setInterval callback, index.ts:202
IntervalFire ==
    /\ intervalNext >= 0
    /\ intervalNext <= now
    /\ started < MaxRuns
    /\ intervalNext' = intervalNext + updateInterval
    /\ writeMarkdownFileStart("interval")
    /\ UNCHANGED << pc, exitCode, config, initialContextGenerated, outputExists, outputDoc,
                    writes, debounceTimer, timeouts, isProcessing, watcherOn, now, burst,
                    lastEvent,
                    call, ret, prev >>

\* the user removes the output file
RemoveOutputFile ==
    /\ pc # "exited"
    /\ outputExists
    /\ outputExists' = FALSE
    /\ outputDoc' = NoDoc
    /\ UNCHANGED << pc, exitCode, config, initialContextGenerated, runs, started, writes,
                    debounceTimer, timeouts, isProcessing, intervalNext, watcherOn, now,
                    burst, lastEvent,
                    call, ret, prev >>

\* deadlines of the armed timers
Deadlines == timeouts \cup (IF intervalNext >= 0 THEN {intervalNext} ELSE {})

\* time passes, up to the next deadline; the clock starts when main() sets up its
\* timers (every timer is relative to the instant it is armed)
Advance ==
    /\ pc = "watching"
    /\ \A d \in Deadlines : d > now
    /\ LET next == now + EventGap
           due  == {d \in Deadlines : d <= next}
       IN  now' = IF due = {} THEN next ELSE CHOOSE d \in due : \A e \in due : d <= e
    /\ now' <= MaxTime
    /\ UNCHANGED << pc, exitCode, config, initialContextGenerated, outputExists, outputDoc,
                    runs, started, writes, debounceTimer, timeouts, isProcessing,
                    intervalNext, watcherOn, burst, lastEvent,
                    call, ret, prev >>

Next ==
    \/ \E reachable \in BOOLEAN : InitializeProvider(reachable)
    \/ \E r \in runs, outcome \in {"ok", "throw"} : ProviderReturns(r, outcome)
    \/ \E filePath \in EventPaths : WatcherEvent(filePath)
    \/ DebounceFire
    \/ IntervalFire
    \/ RemoveOutputFile
    \/ Advance

Spec == Init /\ [][Next]_vars

---------------------------------------------------------------------------
(* Properties of the orchestrator *)

\* the path names the output file or the configuration file
IsOwnFile(p) == resolve(p) = outputPath \/ resolve(p) = resolve(ContextEnv)

\* C1: at every moment at most one generation run is in flight, whatever started it
\* (startup, debounce timer or periodic timer).
C1_AtMostOneRunInFlight == Cardinality(runs) <= 1

\* C2: a burst of non-excluded change events, each less than the debounce delay after
\* the previous one, starts at most one debounce-triggered run; the run starts exactly
\* one debounce delay after the last event of the burst; and once that instant has
\* passed with no run in flight at the firing (and the timer not cleared by an event
\* of an excluded path) exactly one run has been started for the burst.
C2_OneRunPerBurst ==
    burst.last >= 0 =>
        /\ burst.runs <= 1
        /\ burst.runs = 1 => burst.startedAt = burst.last + DebounceDelay
        /\ (now > burst.last + DebounceDelay /\ ~burst.cancelled /\ ~burst.busyAtFire)
              => burst.runs = 1

\* a burst of two events or more has started its run, with no run in flight at the firing
C2_Witness ==
    /\ burst.size >= 2
    /\ burst.runs = 1
    /\ ~burst.busyAtFire
    /\ burst.startedAt = burst.last + DebounceDelay

\* C3: a watcher event whose path is the output file or the configuration file arms no
\* timer and starts no generation run.
C3_OwnFileNeverArms ==
    [][ \A p \in EventPaths :
          (lastEvent' = p /\ IsOwnFile(p) /\ WatcherEvent(p)) =>
              /\ timeouts' \subseteq timeouts
              /\ runs' = runs
              /\ started' = started ]_vars

\* the last watcher event was for the output file in a subdirectory
C3_Witness ==
    /\ lastEvent # ""
    /\ resolve(lastEvent) = outputPath
    /\ config.outputFile = OutSub
    /\ writes >= 2

\* C4 as claimed: a non-excluded change event that arrived while a run was in flight
\* and has not yet been followed by the debounce-triggered run of its burst still has
\* its trigger pending (its timer not having been cleared by a later event), so no
\* change is lost.
C4_NoChangeLost ==
    (burst.duringRun /\ ~burst.cancelled /\ burst.runs = 0) => timeouts # {}

\* C4 as amended: a non-excluded change event that arrives while a run is in flight
\* re-arms the one debounce timer, due one debounce delay after the event; when that
\* timer fires with isProcessing false a debounce-triggered run starts at that instant,
\* after the event; when it fires with isProcessing true the trigger is dropped, no
\* timer stays armed and no run is started for the event (there is no queue).
C4_CapturedUnlessDropped ==
    burst.duringRun =>
        /\ (~burst.fired /\ ~burst.cancelled) =>
              /\ timeouts = {burst.last + DebounceDelay}
              /\ debounceTimer = timeouts
              /\ burst.runs = 0
        /\ (burst.fired /\ ~burst.heldAtFire) =>
              burst.runs = 1 /\ burst.startedAt = burst.last + DebounceDelay
        /\ (burst.fired /\ burst.heldAtFire) =>
              burst.runs = 0 /\ timeouts = {} /\ burst.busyAtFire

\* the timer of an event that arrived during a run fired while that run held the guard
C4_Witness ==
    /\ burst.duringRun
    /\ burst.fired
    /\ burst.heldAtFire
    /\ burst.runs = 0
    /\ runs # {}

\* C5: when the provider call of a run throws, the run writes an error body carrying
\* the time of the failure to the output file, the process keeps running with the watcher
\* and the periodic timer set up, and the guard of a debounce-triggered run is released.
C5_ProviderThrowContained ==
    [][ \A r \in runs :
          ProviderReturns(r, "throw") =>
              /\ outputExists'
              /\ outputDoc' = [kind |-> "error", by |-> r.id, timestamp |-> now]
              /\ writes' = writes + 1
              /\ r \notin runs'
              /\ pc' = "watching" /\ exitCode' = -1
              /\ watcherOn' /\ intervalNext' >= 0
              /\ (r.trigger = "debounce" => ~isProcessing') ]_vars

\* the startup run failed and wrote the error body, and a later trigger has started a run
C5_Witness ==
    /\ outputDoc.kind = "error"
    /\ outputDoc.by = 1
    /\ outputDoc.timestamp >= 0
    /\ \E r \in runs : r.trigger = "debounce"

\* the credential the selected provider needs is not configured
MissingCredential ==
    \/ config.provider \in {"openai", "groq"} /\ ~config.apiKey
    \/ config.provider = "bedrock" /\ ~config.region

\* C6: with the credential of the selected provider missing the process exits with a
\* non-zero status at provider initialisation, and an exited process has started no
\* generation run, written nothing and set up neither the watcher nor a timer.
C6_FatalAtStartup ==
    /\ (MissingCredential /\ pc # "start") => pc = "exited"
    /\ pc = "exited" =>
          /\ exitCode > 0
          /\ started = 0 /\ runs = {} /\ writes = 0
          /\ ~watcherOn /\ intervalNext < 0 /\ timeouts = {} /\ debounceTimer = {}

\* the process has exited because the credential is missing
C6_Witness == pc = "exited" /\ MissingCredential /\ exitCode = 1

\* C7: the startup run is the first run, it is the only one until main() sets up the
\* watcher and the periodic timer, it runs in initial mode on a full collection, and
\* every other run starts after its document has been written.
C7_StartupRunFirst ==
    /\ pc = "start" => started = 0 /\ writes = 0
    /\ pc = "initialRun" =>
          /\ runs = { [id |-> 1, trigger |-> "startup", mode |-> "initial",
                       collected |-> TRUE] }
          /\ started = 1 /\ writes = 0
          /\ ~watcherOn /\ intervalNext < 0 /\ timeouts = {}
    /\ pc = "watching" => writes >= 1 /\ watcherOn /\ intervalNext >= 0
    /\ \A r \in runs :
          /\ r.trigger = "startup" <=> r.id = 1
          /\ r.trigger # "startup" => pc = "watching" /\ writes >= 1

\* the startup document is written and a second run is in flight
C7_Witness ==
    /\ pc = "watching"
    /\ initialContextGenerated
    /\ \E r \in runs : r.id = 2

\* C8: a run that starts once the initial generation has been produced
\* (initialContextGenerated) is incremental, without a full collection, when the output
\* file exists, and is a full regeneration on a fresh full collection when it does not.
C8_IncrementalOrFallback ==
    [][ (started' = started + 1 /\ initialContextGenerated) =>
          \A r \in runs' \ runs :
              IF outputExists
              THEN r.mode = "incremental" /\ ~r.collected
              ELSE r.mode = "fallback" /\ r.collected ]_vars

\* an incremental run and a fallback run have both been started
C8_Witness ==
    /\ initialContextGenerated
    /\ \E r \in runs : r.mode = "fallback" /\ r.collected
    /\ \E r \in runs : r.mode = "incremental" /\ ~r.collected

---------------------------------------------------------------------------
(* Part II : the context builders.  File contents are modelled by their   *)
(* length in characters and their number of lines.                        *)

(* Bounds of Part II *)

ManyFiles == 22       \* number of source files in the directory of the file system "many"
DeepLevels == 7       \* number of nested directories of the file system "deep"

(* More of String and path *)

\* index of the last "." of s, 0 if there is none
LastDot(s) ==
    LET S == {i \in 1..Len(s) : SubSeq(s, i, i) = "."}
    IN  IF S = {} THEN 0 ELSE CHOOSE i \in S : \A j \in S : j <= i

\* path.extname: from the last "." of the basename, "" when there is none or when it
\* is the first character of the basename
extname(p) ==
    LET b == basename(p)
        i == LastDot(b)
    IN  IF i <= 1 THEN "" ELSE SubSeq(b, i, Len(b))

UpperCaseLetters == "ABCDEFGHIJKLMNOPQRSTUVWXYZ"
LowerCaseLetters == "abcdefghijklmnopqrstuvwxyz"

\* index of the one-character string c in the string s, 0 if it is not there
IndexOf(s, c) ==
    LET S == {i \in 1..Len(s) : SubSeq(s, i, i) = c}
    IN  IF S = {} THEN 0 ELSE CHOOSE i \in S : \A j \in S : i <= j

RECURSIVE toLowerCase(_)
toLowerCase(s) ==
    IF s = "" THEN ""
    ELSE LET c == SubSeq(s, 1, 1)
             i == IndexOf(UpperCaseLetters, c)
         IN  (IF i = 0 THEN c ELSE SubSeq(LowerCaseLetters, i, i))
                \o toLowerCase(SubSeq(s, 2, Len(s)))

\* number of decimal digits of n >= 0, the length of `${n}`
RECURSIVE Digits(_)
Digits(n) == IF n < 10 THEN 1 ELSE 1 + Digits(n \div 10)

\* the characters of the file names of the model in the order of their UTF-16 code units
CodeUnitOrder == "-.0123456789" \o UpperCaseLetters \o "_" \o LowerCaseLetters

\* the same characters in the order of their primary weights in the root collation
\* (punctuation, digits, letters; the case of a letter is a tertiary difference)
CollationOrder == "_-.0123456789" \o LowerCaseLetters

\* comparison of two strings by the position of their characters in the string order
RECURSIVE CompareBy(_, _, _)
CompareBy(order, a, b) ==
    IF a = "" \/ b = ""
    THEN (IF a = b THEN 0 ELSE IF a = "" THEN -1 ELSE 1)
    ELSE LET x == IndexOf(order, SubSeq(a, 1, 1))
             y == IndexOf(order, SubSeq(b, 1, 1))
         IN  IF x < y THEN -1
             ELSE IF x > y THEN 1
             ELSE CompareBy(order, SubSeq(a, 2, Len(a)), SubSeq(b, 2, Len(b)))

\* tertiary difference of two strings that are equal up to case: at the first position
\* where they differ the lower-case letter is first
RECURSIVE CompareCase(_, _)
CompareCase(a, b) ==
    IF a = "" \/ b = "" THEN 0
    ELSE LET c == SubSeq(a, 1, 1)
             d == SubSeq(b, 1, 1)
         IN  IF c = d THEN CompareCase(SubSeq(a, 2, Len(a)), SubSeq(b, 2, Len(b)))
             ELSE IF IndexOf(LowerCaseLetters, c) > 0 THEN -1 ELSE 1

\* the primary difference of a and b, or their tertiary difference when there is none
tertiary(primary, a, b) == IF primary # 0 THEN primary ELSE CompareCase(a, b)

\* a.localeCompare(b).  With Intl the strings are compared by the collation of the
\* default locale, without it (a build of node without ICU) by their code units
localeCompare(a, b, intl) ==
    IF intl
    THEN tertiary(CompareBy(CollationOrder, toLowerCase(a), toLowerCase(b)), a, b)
    ELSE CompareBy(CodeUnitOrder, a, b)

(* The file system: the entries of each directory in the order fs.readdirSync  *)
(* returns them, and for each file the length of its content (its size in      *)
(* bytes, the content being ASCII) and its number of lines.                    *)

File(len, lines) == [len |-> len, lines |-> lines]

SmallFS ==
    [ dirs |->
        ("/p" :> << "src", "README.md", "o.md", "package.json", "d", ".gitignore",
                    ".env.example", ".env", "node_modules", "router.ts", "logo.png",
                    "notes.txt", "big.json" >>)
        @@ ("/p/src" :> << "index.ts", "api.ts", "config.ts", "a.test.ts" >>)
        @@ ("/p/d" :> << "x.md", "o.md", "README.md" >>)
        @@ ("/p/node_modules" :> << "m.js" >>),
      files |->
        ("/p/README.md" :> File(120, 6)) @@ ("/p/o.md" :> File(400, 20))
        @@ ("/p/package.json" :> File(80, 5)) @@ ("/p/.gitignore" :> File(20, 3))
        @@ ("/p/.env.example" :> File(16, 2)) @@ ("/p/.env" :> File(30, 2))
        @@ ("/p/router.ts" :> File(60, 4)) @@ ("/p/logo.png" :> File(900, 1))
        @@ ("/p/notes.txt" :> File(44, 3)) @@ ("/p/big.json" :> File(200000, 1))
        @@ ("/p/src/index.ts" :> File(200, 12)) @@ ("/p/src/api.ts" :> File(100, 7))
        @@ ("/p/src/config.ts" :> File(36, 2)) @@ ("/p/src/a.test.ts" :> File(52, 4))
        @@ ("/p/d/x.md" :> File(28, 2)) @@ ("/p/d/o.md" :> File(400, 20))
        @@ ("/p/d/README.md" :> File(40, 2))
        @@ ("/p/node_modules/m.js" :> File(64, 1)) ]

\* the directory k levels below the project directory: /p/l1/l2/.../lk
RECURSIVE DeepDir(_)
DeepDir(k) == IF k = 0 THEN cwd ELSE join(DeepDir(k - 1), "l" \o SubSeq("123456789", k, k))

DeepFS ==
    [ dirs |->
        [ p \in {DeepDir(k) : k \in 0..DeepLevels} |->
            LET k == (Len(p) - Len(cwd)) \div 3
            IN  IF k = 0 THEN << "l1", "f.ts", "o.md" >>
                ELSE IF k < DeepLevels THEN << "l" \o SubSeq("123456789", k + 1, k + 1), "f.ts" >>
                ELSE << "f.ts" >> ],
      files |->
        [ p \in {join(DeepDir(k), "f.ts") : k \in 0..DeepLevels} \cup {"/p/o.md"} |->
            IF p = "/p/o.md" THEN File(400, 20) ELSE File(4 * Len(p), 2) ] ]

\* the name of the i-th source file of the file system "many"
ManyName(i) == SubSeq(LowerCaseLetters, i, i) \o ".ts"

ManyFS ==
    [ dirs |->
        ("/p" :> ([i \in 1..ManyFiles |-> ManyName(i)] \o << "README.md", "o.md" >>)),
      files |->
        [ p \in {join(cwd, ManyName(i)) : i \in 1..ManyFiles} \cup {"/p/README.md", "/p/o.md"} |->
            IF p = "/p/o.md" THEN File(400, 20)
            ELSE IF p = "/p/README.md" THEN File(120, 6)
            ELSE File(8 + 4 * IndexOf(LowerCaseLetters, SubSeq(p, 4, 4)), 2) ] ]

\* a project directory with no entry
EmptyFS == [ dirs |-> ("/p" :> << >>), files |-> [p \in {} |-> File(0, 0)] ]

\* a project with README.md (50 bytes), src/index.ts (2000 bytes) and
\* node_modules/x/index.js (10000 bytes)
ScenarioFS ==
    [ dirs |->
        ("/p" :> << "node_modules", "src", "README.md" >>)
        @@ ("/p/src" :> << "index.ts" >>)
        @@ ("/p/node_modules" :> << "x" >>)
        @@ ("/p/node_modules/x" :> << "index.js" >>),
      files |->
        ("/p/README.md" :> File(50, 3)) @@ ("/p/src/index.ts" :> File(2000, 80))
        @@ ("/p/node_modules/x/index.js" :> File(10000, 300)) ]

\* a project whose first file is worth 100 tokens, with a file of 70 tokens and an
\* empty file after it
ExactFS ==
    [ dirs |-> ("/p" :> << "e.txt", "b.ts", "a.ts" >>),
      files |-> ("/p/a.ts" :> File(400, 20)) @@ ("/p/b.ts" :> File(280, 14))
                @@ ("/p/e.txt" :> File(0, 0)) ]

\* a project with a file that the process may not read
UnreadableFS ==
    [ dirs |-> ("/p" :> << "secret.txt", "b.md", "a.ts" >>),
      files |-> ("/p/a.ts" :> File(80, 4)) @@ ("/p/b.md" :> File(60, 3))
                @@ ("/p/secret.txt" :> File(40, 2)),
      denied |-> { "/p/secret.txt" } ]

\* a project with a directory that the process may not list
LockedFS ==
    [ dirs |-> ("/p" :> << "a.ts", "b.md", "locked", "src" >>)
               @@ ("/p/locked" :> << "x.ts" >>) @@ ("/p/src" :> << "y.ts" >>),
      files |-> ("/p/a.ts" :> File(80, 4)) @@ ("/p/b.md" :> File(60, 3))
                @@ ("/p/locked/x.ts" :> File(40, 2)) @@ ("/p/src/y.ts" :> File(40, 2)),
      denied |-> { "/p/locked" } ]

\* a project with a directory that holds a symbolic link to a file that is gone
DanglingFS ==
    [ dirs |-> ("/p" :> << "a.ts", "b.md", "links", "src" >>)
               @@ ("/p/links" :> << "gone.ts", "x.ts" >>) @@ ("/p/src" :> << "y.ts" >>),
      files |-> ("/p/a.ts" :> File(80, 4)) @@ ("/p/b.md" :> File(60, 3))
                @@ ("/p/links/x.ts" :> File(40, 2)) @@ ("/p/src/y.ts" :> File(40, 2)) ]

FileSystem(name) ==
    CASE name = "small" -> SmallFS
      [] name = "deep"  -> DeepFS
      [] name = "many"  -> ManyFS
      [] name = "empty" -> EmptyFS
      [] name = "scenario" -> ScenarioFS
      [] name = "exact" -> ExactFS
      [] name = "unreadable" -> UnreadableFS
      [] name = "locked" -> LockedFS
      [] name = "dangling" -> DanglingFS

\* the file system with the order in which readdirSync lists the entries of a directory,
\* which is that of the operating system: the order of fs.dirs or the opposite one
Listed(fs, order) ==
    IF order = "reversed"
    THEN [ dirs |-> [d \in DOMAIN fs.dirs |->
                       [i \in 1..Len(fs.dirs[d]) |-> fs.dirs[d][Len(fs.dirs[d]) + 1 - i]]],
           files |-> fs.files,
           denied |-> IF "denied" \in DOMAIN fs THEN fs.denied ELSE {} ]
    ELSE fs

\* fs.statSync(p).isDirectory()
isDirectory(fs, p) == p \in DOMAIN fs.dirs

\* fs.readdirSync(dir)
readdirSync(fs, dir) == fs.dirs[dir]

\* fs.statSync(p).size
size(fs, p) == fs.files[p].len

\* the paths that the process has no permission to open: fs.readdirSync of such a
\* directory and fs.readFileSync of such a file throw EACCES
Denied(fs) == IF "denied" \in DOMAIN fs THEN fs.denied ELSE {}

\* fs.statSync(p) throws ENOENT: p is listed by its directory and is neither a file nor
\* a directory (a symbolic link whose target is gone)
statThrows(fs, p) == p \notin DOMAIN fs.dirs /\ p \notin DOMAIN fs.files

\* fs.readdirSync(dir) throws
readdirThrows(fs, dir) == dir \in Denied(fs)

\* the length of `${error}` for the error that fs throws on p
ErrorText(fs, p) ==
    IF statThrows(fs, p)
    THEN Len("Error: ENOENT: no such file or directory, stat '") + Len(p) + 1
    ELSE IF p \in DOMAIN fs.dirs
    THEN Len("Error: EACCES: permission denied, scandir '") + Len(p) + 1
    ELSE Len("Error: EACCES: permission denied, open '") + Len(p) + 1

\* an exception that leaves collectFilesContent, with the length of its text
Thrown(fs, p) == [files |-> << >>, tokenCount |-> 0, threw |-> ErrorText(fs, p)]

Threw(r) == "threw" \in DOMAIN r

(* The comparators of the sorts *)

codeExtensions ==
    { ".js", ".ts", ".jsx", ".tsx", ".py", ".rb", ".go", ".java", ".c", ".cpp", ".cs", ".php" }

configFiles == { "package.json", "tsconfig.json", ".gitignore", "README.md", "Dockerfile" }

\* the result of a comparator that puts the operands with the first property first, then
\* those with the second property, and orders the rest by the value last
firstThen(aFirst, bFirst, aSecond, bSecond, last) ==
    IF aFirst /\ ~bFirst THEN -1
    ELSE IF ~aFirst /\ bFirst THEN 1
    ELSE IF aSecond /\ ~bSecond THEN -1
    ELSE IF ~aSecond /\ bSecond THEN 1
    ELSE last

\* the comparator of the sort of a directory's entries, context.ts:133-154
compareEntries(a, b, intl) ==
    firstThen(toLowerCase(extname(a)) \in codeExtensions,
              toLowerCase(extname(b)) \in codeExtensions,
              a \in configFiles, b \in configFiles,
              localeCompare(a, b, intl))

\* the comparator of the sort of buildInitialContext
compareInitial(a, b) ==
    firstThen(\E name \in {"package.json", "tsconfig.json", "README.md", ".gitignore"} :
                 EndsWith(a.path, name),
              \E name \in {"package.json", "tsconfig.json", "README.md", ".gitignore"} :
                 EndsWith(b.path, name),
              \E ext \in {".js", ".ts", ".jsx", ".tsx", ".py", ".go", ".java"} :
                 EndsWith(a.path, ext),
              \E ext \in {".js", ".ts", ".jsx", ".tsx", ".py", ".go", ".java"} :
                 EndsWith(b.path, ext),
              a.tokens - b.tokens)

(* The comparators of prioritizeFilesForSection are chains of                   *)
(*     if (test(a.path)) return -1; if (test(b.path)) return 1;                 *)
(* where a test is a disjunction of path.endsWith(s) and path.includes(s).  A   *)
(* chain is written as the sequence of its tests.                               *)

ends(s) == [op |-> "endsWith", s |-> s]
has(s) == [op |-> "includes", s |-> s]

\* one of the alternatives of the test holds of the path p
Test(p, test) ==
    \E t \in test : IF t.op = "endsWith" THEN EndsWith(p, t.s) ELSE Includes(p, t.s)

\* the chain from its k-th test on, and the value returned when no test decides
RECURSIVE chain(_, _, _, _, _)
chain(tests, k, a, b, last) ==
    IF k > Len(tests) THEN last
    ELSE IF Test(a.path, tests[k]) THEN -1
    ELSE IF Test(b.path, tests[k]) THEN 1
    ELSE chain(tests, k + 1, a, b, last)

\* isAMainFile, isBMainFile of the "architecture" comparators
isMainFile(p) == Includes(p, "/src/") /\ ~Includes(p, "test")

\* the tests of the comparators of the newer version
tests2(sectionKey) ==
    CASE sectionKey = "overview" -> << {ends("README.md")}, {ends("package.json")} >>
      [] sectionKey = "setup" ->
            << {ends("package.json")}, {ends(".env.example")}, {has("config")} >>
      [] sectionKey = "apis" -> << {has("api"), has("route")} >>
      [] sectionKey = "components" -> << {has("component"), has("ui")} >>
      [] sectionKey = "configuration" -> << {has("config"), ends(".env.example")} >>
      [] sectionKey = "development" -> << {ends(".gitignore")}, {has("test"), has("dev")} >>
      [] sectionKey = "troubleshooting" -> << {has("error"), has("log")} >>
      [] OTHER -> << >>

\* the comparators of prioritizeFilesForSection of the newer version: every one ends
\* in a.tokens - b.tokens
compare2(sectionKey, a, b) ==
    IF sectionKey = "architecture"
    THEN firstThen(isMainFile(a.path), isMainFile(b.path), FALSE, FALSE, a.tokens - b.tokens)
    ELSE chain(tests2(sectionKey), 1, a, b, a.tokens - b.tokens)

\* the tests of the comparators of the older version
tests1(sectionKey) ==
    CASE sectionKey = "overview" ->
            << {ends("README.md")}, {ends("package.json")}, {has("/src/index")} >>
      [] sectionKey = "technology" ->
            << {ends("package.json")}, {ends("tsconfig.json")}, {has("/src/")} >>
      [] sectionKey = "architecture" -> << {has("index")} >>
      [] sectionKey = "dataModel" ->
            << {has("model"), has("schema"), has("entity")}, {has("db"), has("data")},
               {has("vectorstore")} >>
      [] sectionKey = "api" ->
            << {has("api"), has("route")}, {has("controller"), has("handler")},
               {has("fetch"), has("request")} >>
      [] sectionKey = "security" ->
            << {has("auth"), has("security")}, {has("encrypt"), has("crypt")},
               {has("validate"), has("sanitize")} >>
      [] sectionKey = "codeStandards" ->
            << {has(".eslintrc"), has("prettier")}, {has("tsconfig")},
               {ends(".ts"), ends(".js")} >>
      [] sectionKey = "deployment" ->
            << {has("Dockerfile"), has("docker-compose")},
               {has(".github/workflows"), has("gitlab-ci")}, {has("deploy"), has("build")} >>
      [] sectionKey = "userGuide" ->
            << {ends("README.md")}, {has("doc"), has("example")}, {has("bin"), has("cli")},
               {has("src/index")} >>
      [] sectionKey = "roadmap" ->
            << {ends("README.md")}, {has("TODO"), has("ROADMAP")},
               {has("CHANGELOG"), has("CONTRIBUTING")} >>
      [] OTHER -> << >>

sectionKeys1 ==
    { "overview", "technology", "architecture", "dataModel", "api", "security",
      "codeStandards", "deployment", "userGuide", "roadmap" }

\* the comparators of prioritizeFilesForSection of the older version: those of the known
\* sections end in 0, the default one compares the lengths of the contents
compare1(sectionKey, a, b) ==
    IF sectionKey = "architecture"
    THEN firstThen(isMainFile(a.path), isMainFile(b.path), FALSE, FALSE,
                   chain(tests1(sectionKey), 1, a, b, 0))
    ELSE chain(tests1(sectionKey), 1, a, b,
               IF sectionKey \in sectionKeys1 THEN 0 ELSE a.content - b.content)

\* the comparator function handed to Array.prototype.sort
compare(cmp, a, b) ==
    CASE cmp.fn = "compareEntries" -> compareEntries(a, b, cmp.intl)
      [] cmp.fn = "compare1" -> compare1(cmp.sectionKey, a, b)
      [] cmp.fn = "compare2" -> compare2(cmp.sectionKey, a, b)
      [] cmp.fn = "compareInitial" -> compareInitial(a, b)

(* Array.prototype.sort of an array shorter than 64: one run of the merge sort of  *)
(* V8 (third_party/v8/builtins/array-sort.tq), which counts the run at the start   *)
(* of the array, reverses it when it is strictly descending, and extends it to the *)
(* whole array by binary insertion.  Positions are counted from 0 as in the code.  *)

\* the end of the run that starts at position 0, i being the next position to look at
RECURSIVE CountRun(_, _, _, _)
CountRun(cmp, a, descending, i) ==
    IF i >= Len(a) THEN Len(a)
    ELSE IF descending
    THEN (IF compare(cmp, a[i + 1], a[i]) >= 0 THEN i
          ELSE CountRun(cmp, a, descending, i + 1))
    ELSE (IF compare(cmp, a[i + 1], a[i]) < 0 THEN i
          ELSE CountRun(cmp, a, descending, i + 1))

Reverse(a) == [i \in 1..Len(a) |-> a[Len(a) + 1 - i]]

\* the position where pivot is inserted in the sorted range [left, right)
RECURSIVE BinarySearch(_, _, _, _, _)
BinarySearch(cmp, a, pivot, left, right) ==
    IF left >= right THEN left
    ELSE IF compare(cmp, pivot, a[left + ((right - left) \div 2) + 1]) < 0
    THEN BinarySearch(cmp, a, pivot, left, left + ((right - left) \div 2))
    ELSE BinarySearch(cmp, a, pivot, left + ((right - left) \div 2) + 1, right)

\* a with the element at position start moved to position pos <= start
Insert(a, start, pos) ==
    SubSeq(a, 1, pos) \o << a[start + 1] >> \o SubSeq(a, pos + 1, start)
       \o SubSeq(a, start + 2, Len(a))

RECURSIVE BinaryInsertionSort(_, _, _)
BinaryInsertionSort(cmp, a, start) ==
    IF start >= Len(a) THEN a
    ELSE BinaryInsertionSort(cmp, Insert(a, start, BinarySearch(cmp, a, a[start + 1], 0, start)),
                             start + 1)

\* the array with its first run, of length runLength, made ascending, then sorted
SortRun(cmp, a, descending, runLength) ==
    BinaryInsertionSort(cmp,
                        (IF descending THEN Reverse(SubSeq(a, 1, runLength))
                         ELSE SubSeq(a, 1, runLength)) \o SubSeq(a, runLength + 1, Len(a)),
                        runLength)

CountAndMakeRun(cmp, a, descending) ==
    SortRun(cmp, a, descending, CountRun(cmp, a, descending, 2))

ArraySort(cmp, a) ==
    IF Len(a) < 2 THEN a
    ELSE CountAndMakeRun(cmp, a, compare(cmp, a[2], a[1]) < 0)

(* src/src/context.ts *)

ignorePatterns ==
    { "node_modules", ".git", "dist", "build", "coverage", ".DS_Store", ".env", ".vscode",
      ".idea", "package-lock.json", "yarn.lock", ".next", "out", ".cache" }

skipExtensions ==
    { ".jpg", ".jpeg", ".png", ".gif", ".bmp", ".ico", ".webp", ".mp4", ".webm", ".mov",
      ".avi", ".mkv", ".mp3", ".wav", ".ogg", ".flac", ".zip", ".tar", ".gz", ".rar", ".7z",
      ".pdf", ".doc", ".docx", ".xls", ".xlsx", ".ppt", ".pptx", ".bin", ".exe", ".dll",
      ".so", ".dylib", ".ttf", ".otf", ".woff", ".woff2", ".data", ".model", ".pb" }

shouldIgnore(filePath, outPath) ==
    IF resolve(filePath) = resolve(outPath) THEN TRUE
    ELSE IF toLowerCase(extname(filePath)) \in skipExtensions THEN TRUE
    ELSE IF /\ StartsWith(basename(filePath), ".")
            /\ ~\E name \in {"gitignore", "npmignore", "env.example"} :
                    EndsWith(basename(filePath), name)
         THEN TRUE
    ELSE \E pattern \in ignorePatterns : Includes(filePath, pattern)

\* Math.ceil(text.length / 4) of a text of len characters
estimateTokens(len) == (len + 3) \div 4

\* the length of (bytes / unit).toFixed(2)
toFixed2(bytes, unit) == Digits(((bytes * 200 + unit) \div (2 * unit)) \div 100) + 3

\* the length of getFileSize(filePath) for a file of the given size: `${bytes} B`, or
\* the size in KB, MB or GB with two decimals
getFileSize(bytes) ==
    IF bytes < 1024 THEN Digits(bytes) + 2
    ELSE IF bytes < 1024 * 1024 THEN toFixed2(bytes, 1024) + 3
    ELSE IF bytes < 1024 * 1024 * 1024 THEN toFixed2(bytes, 1024 * 1024) + 3
    ELSE toFixed2(bytes, 1024 * 1024 * 1024) + 3

maxSize == 102400

\* the length of readFileContent(filePath): the content, `[File too large: ...]`, or
\* `[Error reading file: ...]` when readFileSync throws
readFileContent(fs, filePath) ==
    IF size(fs, filePath) > maxSize
    THEN 17 + getFileSize(size(fs, filePath)) + 1
    ELSE IF filePath \in Denied(fs)
    THEN Len("[Error reading file: ") + ErrorText(fs, filePath) + 1
    ELSE fs.files[filePath].len

RECURSIVE collectFilesContent(_, _, _, _, _, _, _, _)
RECURSIVE collectLoop(_, _, _, _, _, _, _, _, _, _, _)

\* the for loop that pushes every file that is not ignored, without the test of
\* currentTokens + tokens against maxTokens
RECURSIVE collectLoop_NoBudgetTest(_, _, _, _, _, _, _, _, _, _, _)
collectLoop_NoBudgetTest(fs, intl, dir, outPath, depth, maxDepth, maxTokens, sortedFiles, i, results, currentTokens) ==
    IF i > Len(sortedFiles) \/ currentTokens >= maxTokens
    THEN [files |-> results, tokenCount |-> currentTokens]
    ELSE IF shouldIgnore(join(dir, sortedFiles[i]), outPath)
    THEN collectLoop_NoBudgetTest(fs, intl, dir, outPath, depth, maxDepth, maxTokens,
                                  sortedFiles, i + 1, results, currentTokens)
    ELSE IF statThrows(fs, join(dir, sortedFiles[i]))
    THEN Thrown(fs, join(dir, sortedFiles[i]))
    ELSE IF isDirectory(fs, join(dir, sortedFiles[i]))
    THEN LET sub == collectFilesContent(fs, intl, join(dir, sortedFiles[i]), outPath,
                                        depth + 1, maxDepth, maxTokens, currentTokens)
         IN  IF Threw(sub) THEN sub
             ELSE collectLoop_NoBudgetTest(fs, intl, dir, outPath, depth, maxDepth, maxTokens,
                                           sortedFiles, i + 1, results \o sub.files,
                                           sub.tokenCount)
    ELSE collectLoop_NoBudgetTest(fs, intl, dir, outPath, depth, maxDepth, maxTokens,
                                  sortedFiles, i + 1,
                                  Append(results,
                                         [path |-> join(dir, sortedFiles[i]),
                                          content |-> readFileContent(fs, join(dir, sortedFiles[i]))]),
                                  currentTokens
                                     + estimateTokens(readFileContent(fs, join(dir, sortedFiles[i]))))

\* the for loop that stops at the first file that does not fit
RECURSIVE collectLoop_StopAtFirst(_, _, _, _, _, _, _, _, _, _, _)
collectLoop_StopAtFirst(fs, intl, dir, outPath, depth, maxDepth, maxTokens, sortedFiles, i, results, currentTokens) ==
    IF i > Len(sortedFiles) \/ currentTokens >= maxTokens
    THEN [files |-> results, tokenCount |-> currentTokens]
    ELSE IF shouldIgnore(join(dir, sortedFiles[i]), outPath)
    THEN collectLoop_StopAtFirst(fs, intl, dir, outPath, depth, maxDepth, maxTokens,
                                 sortedFiles, i + 1, results, currentTokens)
    ELSE IF statThrows(fs, join(dir, sortedFiles[i]))
    THEN Thrown(fs, join(dir, sortedFiles[i]))
    ELSE IF isDirectory(fs, join(dir, sortedFiles[i]))
    THEN LET sub == collectFilesContent(fs, intl, join(dir, sortedFiles[i]), outPath,
                                        depth + 1, maxDepth, maxTokens, currentTokens)
         IN  IF Threw(sub) THEN sub
             ELSE collectLoop_StopAtFirst(fs, intl, dir, outPath, depth, maxDepth, maxTokens,
                                          sortedFiles, i + 1, results \o sub.files,
                                          sub.tokenCount)
    ELSE LET content == readFileContent(fs, join(dir, sortedFiles[i]))
         IN  IF currentTokens + estimateTokens(content) > maxTokens
             THEN [files |-> results, tokenCount |-> currentTokens]
             ELSE collectLoop_StopAtFirst(fs, intl, dir, outPath, depth, maxDepth,
                                          maxTokens, sortedFiles, i + 1,
                                          Append(results, [path |-> join(dir, sortedFiles[i]),
                                                           content |-> content]),
                                          currentTokens + estimateTokens(content))

\* the for loop of collectFilesContent from the i-th sorted entry on, context.ts:156-190
collectLoop(fs, intl, dir, outPath, depth, maxDepth, maxTokens, sortedFiles, i, results, currentTokens) ==
    IF i > Len(sortedFiles) \/ currentTokens >= maxTokens
    THEN [files |-> results, tokenCount |-> currentTokens]
    ELSE IF shouldIgnore(join(dir, sortedFiles[i]), outPath)
    THEN collectLoop(fs, intl, dir, outPath, depth, maxDepth, maxTokens, sortedFiles,
                     i + 1, results, currentTokens)
    ELSE IF statThrows(fs, join(dir, sortedFiles[i]))
    THEN Thrown(fs, join(dir, sortedFiles[i]))
    ELSE IF isDirectory(fs, join(dir, sortedFiles[i]))
    THEN LET sub == collectFilesContent(fs, intl, join(dir, sortedFiles[i]), outPath,
                                        depth + 1, maxDepth, maxTokens, currentTokens)
         IN  IF Threw(sub) THEN sub
             ELSE collectLoop(fs, intl, dir, outPath, depth, maxDepth, maxTokens, sortedFiles,
                              i + 1, results \o sub.files, sub.tokenCount)
    ELSE LET content == readFileContent(fs, join(dir, sortedFiles[i]))
         IN  IF currentTokens + estimateTokens(content) > maxTokens
             THEN collectLoop(fs, intl, dir, outPath, depth, maxDepth, maxTokens,
                              sortedFiles, i + 1, results, currentTokens)
             ELSE collectLoop(fs, intl, dir, outPath, depth, maxDepth, maxTokens,
                              sortedFiles, i + 1,
                              Append(results, [path |-> join(dir, sortedFiles[i]),
                                               content |-> content]),
                              currentTokens + estimateTokens(content))

\* collectFilesContent that takes the entries in the order of readdirSync
collectFilesContent_NoSort(fs, intl, dir, outPath, depth, maxDepth, maxTokens, currentTokens) ==
    IF depth > maxDepth \/ currentTokens >= maxTokens
    THEN [files |-> << >>, tokenCount |-> currentTokens]
    ELSE IF readdirThrows(fs, dir)
    THEN Thrown(fs, dir)
    ELSE collectLoop(fs, intl, dir, outPath, depth, maxDepth, maxTokens,
                     readdirSync(fs, dir), 1, << >>, currentTokens)

\* collectFilesContent that does not read the directories at depth maxDepth
collectFilesContent_DepthOffByOne(fs, intl, dir, outPath, depth, maxDepth, maxTokens, currentTokens) ==
    IF depth >= maxDepth \/ currentTokens >= maxTokens
    THEN [files |-> << >>, tokenCount |-> currentTokens]
    ELSE IF readdirThrows(fs, dir)
    THEN Thrown(fs, dir)
    ELSE collectLoop(fs, intl, dir, outPath, depth, maxDepth, maxTokens,
                     ArraySort([fn |-> "compareEntries", intl |-> intl], readdirSync(fs, dir)),
                     1, << >>, currentTokens)

\* context.ts:124-191
collectFilesContent(fs, intl, dir, outPath, depth, maxDepth, maxTokens, currentTokens) ==
    IF depth > maxDepth \/ currentTokens >= maxTokens
    THEN [files |-> << >>, tokenCount |-> currentTokens]
    ELSE IF readdirThrows(fs, dir)
    THEN Thrown(fs, dir)
    ELSE collectLoop(fs, intl, dir, outPath, depth, maxDepth, maxTokens,
                     ArraySort([fn |-> "compareEntries", intl |-> intl], readdirSync(fs, dir)),
                     1, << >>, currentTokens)

\* path.relative(rootDir, p) for a path p below rootDir
relative(rootDir, p) == SubSeq(p, Len(rootDir) + 2, Len(p))

RECURSIVE SumSeq(_)
SumSeq(s) == IF s = << >> THEN 0 ELSE s[1] + SumSeq(Tail(s))

\* the context string made of the collected files, context.ts:201-214: the files, the
\* token count that is logged, the order of its parts and its length
formatContext(rootDir, collected) ==
    IF Threw(collected)
    THEN \* the catch of context.ts:215-218: `Error collecting project context: ${error}`
         [files |-> << >>,
          tokenCount |-> 0,
          parts |-> << "error" >>,
          length |-> Len("Error collecting project context: ") + collected.threw]
    ELSE
    [files |-> collected.files,
     tokenCount |-> collected.tokenCount,
     parts |-> << "header", "files" >>,
     length |-> 19 + Len(rootDir) + 2
                + SumSeq([i \in 1..Len(collected.files) |->
                            11 + Len(relative(rootDir, collected.files[i].path)) + 6
                               + collected.files[i].content + 2])]

\* context.ts:196-219
collectProjectContext(fs, intl, rootDir, outPath, maxTokens) ==
    formatContext(rootDir, collectFilesContent(fs, intl, rootDir, outPath, 0, 5, maxTokens, 0))

(* VectorStore *)

validExtensions == { ".ts", ".js", ".json", ".md", ".txt", ".gitignore", ".env.example" }

excludedDirs == { "node_modules", ".git", "dist", "build", ".context-db" }

RECURSIVE scanDir(_, _)
RECURSIVE scanItems(_, _, _, _, _)

\* the for loop of scanDir from the i-th entry on; files is the array filled so far
scanItems(fs, dirPath, items, i, files) ==
    IF i > Len(items) THEN files
    ELSE IF isDirectory(fs, join(dirPath, items[i]))
    THEN scanItems(fs, dirPath, items, i + 1, files \o scanDir(fs, join(dirPath, items[i])))
    ELSE IF \/ extname(join(dirPath, items[i])) \in validExtensions
            \/ \E valid \in validExtensions : EndsWith(join(dirPath, items[i]), valid)
    THEN scanItems(fs, dirPath, items, i + 1,
                   Append(files, [path |-> join(dirPath, items[i]),
                                  content |-> fs.files[join(dirPath, items[i])].len,
                                  lines |-> fs.files[join(dirPath, items[i])].lines]))
    ELSE scanItems(fs, dirPath, items, i + 1, files)

\* the files scanDir(dirPath) adds to the array
scanDir(fs, dirPath) ==
    IF \E excluded \in excludedDirs : Includes(dirPath, excluded) THEN << >>
    ELSE scanItems(fs, dirPath, readdirSync(fs, dirPath), 1, << >>)

\* VectorStore.getAllFiles of an initialised store: the files below process.cwd()
getAllFiles(fs) == scanDir(fs, cwd)

\* path.extname(filePath) || "unknown"
fileType(filePath) == IF extname(filePath) = "" THEN "unknown" ELSE extname(filePath)

\* the keys of stats.fileTypes in the order of their insertion
RECURSIVE fileTypeKeys(_, _, _)
fileTypeKeys(files, i, keys) ==
    IF i > Len(files) THEN keys
    ELSE fileTypeKeys(files, i + 1,
                      IF \E k \in 1..Len(keys) : keys[k] = fileType(files[i].path) THEN keys
                      ELSE Append(keys, fileType(files[i].path)))

\* the statistics of the files, VectorStore.getStats
statsOf(fs, files, keys) ==
    [totalFiles |-> Len(files),
     totalSize  |-> SumSeq([i \in 1..Len(files) |-> size(fs, files[i].path)]),
     totalLines |-> SumSeq([i \in 1..Len(files) |-> files[i].lines]),
     fileTypes  |-> [k \in 1..Len(keys) |->
                       [ext |-> keys[k],
                        count |-> Cardinality({i \in 1..Len(files) :
                                                  fileType(files[i].path) = keys[k]})]]]

allStats(fs, files) == statsOf(fs, files, fileTypeKeys(files, 1, << >>))

getStats(fs) == allStats(fs, getAllFiles(fs))

(* ContextManager.  The repository holds two versions of the class; the names of *)
(* the older one (the first in the file) end in 1, those of the newer one in 2.  *)
(* getProjectStats and estimateTokens are the same in both.                      *)

\* the length of `${ext}: ${count}` joined by ", " over the file types
fileTypesText(fileTypes) ==
    SumSeq([k \in 1..Len(fileTypes) |->
              Len(fileTypes[k].ext) + 2 + Digits(fileTypes[k].count)])
    + (IF Len(fileTypes) > 1 THEN 2 * (Len(fileTypes) - 1) ELSE 0)

\* the length of the text getProjectStats makes of the statistics
statsText(stats) ==
    86 + Digits(stats.totalFiles)
       + Digits((2 * stats.totalSize + 1024) \div 2048)       \* Math.round(totalSize / 1024)
       + Digits(stats.totalLines)
       + fileTypesText(stats.fileTypes)

\* the length of the text of getProjectStats()
getProjectStats(fs) == statsText(getStats(fs))

\* prioritizeFilesForSection that returns the files in the order of the scan
prioritizeFilesForSection2_Unsorted(files, sectionKey) == files

prioritizeFilesForSection2(files, sectionKey) ==
    ArraySort([fn |-> "compare2", sectionKey |-> sectionKey], files)

getMaxFilesForSection2(sectionKey) ==
    CASE sectionKey = "overview" -> 5
      [] sectionKey = "architecture" -> 10
      [] sectionKey = "setup" -> 6
      [] sectionKey = "apis" -> 8
      [] sectionKey = "components" -> 10
      [] sectionKey = "configuration" -> 5
      [] sectionKey = "development" -> 6
      [] sectionKey = "troubleshooting" -> 5
      [] OTHER -> 8

\* the length of buildSectionHeader(sectionKey)
buildSectionHeader2(sectionKey) ==
    565 + 2 * Len(sectionKey)
    + (CASE sectionKey = "overview" -> 370
         [] sectionKey = "architecture" -> 422
         [] sectionKey = "setup" -> 315
         [] sectionKey = "apis" -> 352
         [] sectionKey = "components" -> 324
         [] sectionKey = "configuration" -> 352
         [] sectionKey = "development" -> 325
         [] sectionKey = "troubleshooting" -> 312
         [] OTHER -> 298)
    + 45 + Len(cwd)

\* the length of buildSectionFooter(sectionKey)
buildSectionFooter2(sectionKey) == 401 + 2 * Len(sectionKey)

\* files.map(file => ({...file, tokens: estimateTokens(file.content)}))
withTokens(files) ==
    [i \in 1..Len(files) |->
        [path |-> files[i].path, content |-> files[i].content,
         tokens |-> estimateTokens(files[i].content)]]

\* the files of getAllFiles with their token estimates
filesWithTokens(fs) == withTokens(getAllFiles(fs))

\* the tokens charged for a file: content, `\n### FILE: ${path}\n```\n` and `\n```\n`
fileCost2(file) ==
    file.tokens + estimateTokens(16 + Len(file.path)) + estimateTokens(5)

\* the length of the text added for a file
fileText2(file) == 16 + Len(file.path) + file.content + 5

\* the length of the text added for the files
filesText2(files) == SumSeq([i \in 1..Len(files) |-> fileText2(files[i])])

\* the for loop of buildSectionContext with no limit on the number of files
RECURSIVE sectionLoop2_NoLimit(_, _, _, _, _, _)
sectionLoop2_NoLimit(sectionKey, totalTokenBudget, sortedFiles, i, totalTokens, includedFiles) ==
    IF i > Len(sortedFiles) THEN [files |-> includedFiles, tokenCount |-> totalTokens]
    ELSE IF totalTokens + fileCost2(sortedFiles[i]) > totalTokenBudget
    THEN sectionLoop2_NoLimit(sectionKey, totalTokenBudget, sortedFiles, i + 1, totalTokens,
                              includedFiles)
    ELSE sectionLoop2_NoLimit(sectionKey, totalTokenBudget, sortedFiles, i + 1,
                              totalTokens + fileCost2(sortedFiles[i]),
                              Append(includedFiles, sortedFiles[i]))

\* the for loop of buildSectionContext from the i-th sorted file on
RECURSIVE sectionLoop2(_, _, _, _, _, _)
sectionLoop2(sectionKey, totalTokenBudget, sortedFiles, i, totalTokens, includedFiles) ==
    IF i > Len(sortedFiles) THEN [files |-> includedFiles, tokenCount |-> totalTokens]
    ELSE IF totalTokens + fileCost2(sortedFiles[i]) > totalTokenBudget
    THEN sectionLoop2(sectionKey, totalTokenBudget, sortedFiles, i + 1, totalTokens,
                      includedFiles)
    ELSE IF Len(includedFiles) + 1 >= getMaxFilesForSection2(sectionKey)
    THEN [files |-> Append(includedFiles, sortedFiles[i]),
          tokenCount |-> totalTokens + fileCost2(sortedFiles[i])]
    ELSE sectionLoop2(sectionKey, totalTokenBudget, sortedFiles, i + 1,
                      totalTokens + fileCost2(sortedFiles[i]),
                      Append(includedFiles, sortedFiles[i]))

\* the context of the newer version: the included files, the token count that is
\* logged, the order of the parts of the context and its length
sectionContext2(fs, sectionKey, loop) ==
    [files |-> loop.files,
     tokenCount |-> loop.tokenCount,
     parts |-> << "header", "files", "stats", "footer" >>,
     length |-> buildSectionHeader2(sectionKey) + filesText2(loop.files)
                + 23 + getProjectStats(fs) + buildSectionFooter2(sectionKey)]

\* buildSectionContext of the newer version
buildSectionContext2(fs, sectionKey, totalTokenBudget) ==
    sectionContext2(fs, sectionKey,
                    sectionLoop2(sectionKey, totalTokenBudget,
                                 prioritizeFilesForSection2(filesWithTokens(fs), sectionKey),
                                 1, estimateTokens(buildSectionHeader2(sectionKey)), << >>))

keyFiles == << "README.md", "package.json", "tsconfig.json" >>

\* sortedFiles.indexOf(sortedFiles.find(file => file.path.endsWith(keyFileName))),
\* counted from 1, 0 when there is no such file
findKeyFile(sortedFiles, keyFileName) ==
    IF \E i \in 1..Len(sortedFiles) : EndsWith(sortedFiles[i].path, keyFileName)
    THEN CHOOSE i \in 1..Len(sortedFiles) :
            /\ EndsWith(sortedFiles[i].path, keyFileName)
            /\ \A m \in 1..(i - 1) : ~EndsWith(sortedFiles[m].path, keyFileName)
    ELSE 0

\* sortedFiles after splice(j - 1, 1)
splice(sortedFiles, j) ==
    SubSeq(sortedFiles, 1, j - 1) \o SubSeq(sortedFiles, j + 1, Len(sortedFiles))

RECURSIVE keyFilesLoop(_, _, _, _, _)

\* one round of the loop over keyFiles, j being the position of the key file
keyFileStep(totalTokenBudget, k, sortedFiles, totalTokens, includedFiles, j) ==
    IF j > 0 /\ totalTokens + fileCost2(sortedFiles[j]) <= totalTokenBudget
    THEN keyFilesLoop(totalTokenBudget, k + 1, splice(sortedFiles, j),
                      totalTokens + fileCost2(sortedFiles[j]),
                      Append(includedFiles, sortedFiles[j]))
    ELSE keyFilesLoop(totalTokenBudget, k + 1, sortedFiles, totalTokens, includedFiles)

\* the loop over keyFiles from the k-th name on: a key file that fits is included and
\* removed from sortedFiles
keyFilesLoop(totalTokenBudget, k, sortedFiles, totalTokens, includedFiles) ==
    IF k > Len(keyFiles)
    THEN [sortedFiles |-> sortedFiles, totalTokens |-> totalTokens,
          includedFiles |-> includedFiles]
    ELSE keyFileStep(totalTokenBudget, k, sortedFiles, totalTokens, includedFiles,
                     findKeyFile(sortedFiles, keyFiles[k]))

\* the loop over the other files from the i-th on
RECURSIVE initialLoop(_, _, _, _, _)
initialLoop(totalTokenBudget, sortedFiles, i, totalTokens, includedFiles) ==
    IF i > Len(sortedFiles) THEN [files |-> includedFiles, tokenCount |-> totalTokens]
    ELSE IF \/ \E m \in 1..Len(includedFiles) : includedFiles[m].path = sortedFiles[i].path
            \/ totalTokens + fileCost2(sortedFiles[i]) > totalTokenBudget
    THEN initialLoop(totalTokenBudget, sortedFiles, i + 1, totalTokens, includedFiles)
    ELSE initialLoop(totalTokenBudget, sortedFiles, i + 1,
                     totalTokens + fileCost2(sortedFiles[i]),
                     Append(includedFiles, sortedFiles[i]))

\* the length of the header of buildInitialContext
initialHeader == 655 + Len(cwd)

\* the context of buildInitialContext, skippedFiles being files.length - includedFiles.length
initialContext(fs, loop, skippedFiles) ==
    [files |-> loop.files,
     tokenCount |-> loop.tokenCount,
     parts |-> << "header", "files", "stats" >>
                  \o (IF skippedFiles > 0 THEN << "excluded" >> ELSE << >>)
                  \o << "footer" >>,
     length |-> initialHeader + filesText2(loop.files) + 23 + getProjectStats(fs)
                + (IF skippedFiles > 0 THEN 71 + Digits(skippedFiles) ELSE 0)
                + 230]

\* buildInitialContext after the loop over keyFiles
initialRest(fs, totalTokenBudget, fileCount, keys) ==
    LET loop == initialLoop(totalTokenBudget, keys.sortedFiles, 1, keys.totalTokens,
                            keys.includedFiles)
    IN  initialContext(fs, loop, fileCount - Len(loop.files))

\* buildInitialContext after the sort
initialSorted(fs, totalTokenBudget, sortedFiles) ==
    initialRest(fs, totalTokenBudget, Len(sortedFiles),
                keyFilesLoop(totalTokenBudget, 1, sortedFiles,
                             estimateTokens(initialHeader), << >>))

\* buildInitialContext (newer version)
buildInitialContext(fs, totalTokenBudget) ==
    initialSorted(fs, totalTokenBudget,
                  ArraySort([fn |-> "compareInitial"], filesWithTokens(fs)))

prioritizeFilesForSection1(files, sectionKey) ==
    ArraySort([fn |-> "compare1", sectionKey |-> sectionKey], files)

getMaxFilesForSection1(sectionKey) ==
    CASE sectionKey = "overview" -> 30
      [] sectionKey = "technology" -> 40
      [] sectionKey = "architecture" -> 50
      [] sectionKey = "dataModel" -> 30
      [] sectionKey = "api" -> 50
      [] sectionKey = "security" -> 25
      [] sectionKey = "codeStandards" -> 40
      [] sectionKey = "deployment" -> 30
      [] sectionKey = "userGuide" -> 40
      [] sectionKey = "roadmap" -> 20
      [] OTHER -> 30

\* the length of buildSectionHeader(sectionKey) of the older version
buildSectionHeader1(sectionKey) ==
    26 + Len(sectionKey)
    + (CASE sectionKey = "overview" -> 692
         [] sectionKey = "technology" -> 806
         [] sectionKey = "architecture" -> 866
         [] sectionKey = "dataModel" -> 802
         [] sectionKey = "api" -> 818
         [] sectionKey = "security" -> 888
         [] sectionKey = "codeStandards" -> 1012
         [] sectionKey = "deployment" -> 959
         [] sectionKey = "userGuide" -> 1028
         [] sectionKey = "roadmap" -> 1022
         [] OTHER -> 163)

\* the length of buildSectionFooter(sectionKey) of the older version
buildSectionFooter1(sectionKey) == 1045

\* the length of the text added for a file: `\nFILE: ${path}\n---\n${content}\n---\n\n`
fileText1(file) == 18 + Len(file.path) + file.content

\* the for loop that goes on to the next file after a file that does not fit
RECURSIVE sectionLoop1_SkipAndContinue(_, _, _, _, _, _)
sectionLoop1_SkipAndContinue(maxFiles, tokenBudget, prioritizedFiles, i, usedTokens, included) ==
    IF i > Len(prioritizedFiles) \/ Len(included) >= maxFiles
    THEN [files |-> included, tokenCount |-> usedTokens]
    ELSE IF usedTokens + estimateTokens(fileText1(prioritizedFiles[i])) <= tokenBudget
    THEN sectionLoop1_SkipAndContinue(maxFiles, tokenBudget, prioritizedFiles, i + 1,
                      usedTokens + estimateTokens(fileText1(prioritizedFiles[i])),
                      Append(included, prioritizedFiles[i]))
    ELSE sectionLoop1_SkipAndContinue(maxFiles, tokenBudget, prioritizedFiles, i + 1,
                                      usedTokens, included)

\* the for loop of buildSectionContext (older version) from the i-th file on
RECURSIVE sectionLoop1(_, _, _, _, _, _)
sectionLoop1(maxFiles, tokenBudget, prioritizedFiles, i, usedTokens, included) ==
    IF i > Len(prioritizedFiles) \/ Len(included) >= maxFiles
    THEN [files |-> included, tokenCount |-> usedTokens]
    ELSE IF usedTokens + estimateTokens(fileText1(prioritizedFiles[i])) <= tokenBudget
    THEN sectionLoop1(maxFiles, tokenBudget, prioritizedFiles, i + 1,
                      usedTokens + estimateTokens(fileText1(prioritizedFiles[i])),
                      Append(included, prioritizedFiles[i]))
    ELSE [files |-> included, tokenCount |-> usedTokens]

\* the context of the older version, `${header}\n\n${stats}\n\n${fileContents}\n\n${footer}`
sectionContext1(header, stats, footer, loop) ==
    [files |-> loop.files,
     tokenCount |-> loop.tokenCount,
     parts |-> << "header", "stats", "files", "footer" >>,
     length |-> header + 2 + stats + 2
                + SumSeq([i \in 1..Len(loop.files) |-> fileText1(loop.files[i])])
                + 2 + footer]

\* buildSectionContext that leaves the statistics out when the structural text alone
\* exceeds the budget
sectionFiles1_StatsIfFits(fs, sectionKey, tokenBudget, header, stats, footer) ==
    sectionContext1(header,
                    IF estimateTokens(stats) + estimateTokens(header) + estimateTokens(footer)
                          > tokenBudget
                    THEN 0 ELSE stats,
                    footer,
                    sectionLoop1(getMaxFilesForSection1(sectionKey), tokenBudget,
                                 prioritizeFilesForSection1(getAllFiles(fs), sectionKey), 1,
                                 estimateTokens(stats) + estimateTokens(header)
                                    + estimateTokens(footer),
                                 << >>))

\* buildSectionContext of the older version after the structural text is charged
sectionFiles1(fs, sectionKey, tokenBudget, header, stats, footer) ==
    sectionContext1(header, stats, footer,
                    sectionLoop1(getMaxFilesForSection1(sectionKey), tokenBudget,
                                 prioritizeFilesForSection1(getAllFiles(fs), sectionKey), 1,
                                 estimateTokens(stats) + estimateTokens(header)
                                    + estimateTokens(footer),
                                 << >>))

\* buildSectionContext of the older version
buildSectionContext1(fs, sectionKey, totalTokenBudget) ==
    sectionFiles1(fs, sectionKey,
                  (totalTokenBudget * 9) \div 10,              \* Math.floor(budget * 0.9)
                  buildSectionHeader1(sectionKey), getProjectStats(fs),
                  buildSectionFooter1(sectionKey))

---------------------------------------------------------------------------
(* The context builders as a state machine: a call is chosen, then returns *)

FileSystemNames == { "small", "deep", "many", "empty", "scenario", "exact" }

\* the file systems with failures, which are inputs of the collector of context.ts
FaultyFileSystemNames == { "unreadable", "locked", "dangling" }

\* config.outputFile
OutputFiles == { OutRoot, OutSub }

\* maxTokens of the collector, totalTokenBudget of the ContextManager (30000 by default)
Budgets == { 100, 170, 850, 900, 30000 }

\* the order of the entries readdirSync returns
Orders == { "listed", "reversed" }

\* section keys: known to both versions, to one of them, to none
SectionKeys == { "overview", "architecture", "roadmap", "apis", "other" }

Call(fn, fs, out, budget, sectionKey, intl) ==
    [fn |-> fn, fs |-> fs, out |-> out, budget |-> budget, sectionKey |-> sectionKey,
     intl |-> intl, order |-> "listed"]

Calls ==
    { Call("collectProjectContext", fs, out, budget, "", intl) :
         fs \in FileSystemNames \cup FaultyFileSystemNames, out \in OutputFiles,
         budget \in Budgets, intl \in BOOLEAN }
    \cup
    { Call(fn, fs, out, budget, sectionKey, TRUE) :
         fn \in {"buildSectionContext1", "buildSectionContext2"},
         fs \in FileSystemNames, out \in OutputFiles, budget \in Budgets,
         sectionKey \in SectionKeys }
    \cup
    { Call("buildInitialContext", fs, out, budget, "", TRUE) :
         fs \in FileSystemNames, out \in OutputFiles, budget \in Budgets }

\* the returned context: the files in it (path and content length, in order), the
\* token count, the order of its parts and its length
Return(r) ==
    [done |-> TRUE,
     files |-> [i \in 1..Len(r.files) |->
                  [path |-> r.files[i].path, content |-> r.files[i].content]],
     tokenCount |-> r.tokenCount,
     parts |-> r.parts,
     length |-> r.length]

InitContext ==
    /\ call \in Calls
    /\ ret = NoRet
    /\ prev = NoPrev
    /\ pc = "start"
    /\ exitCode = -1
    /\ config = CHOOSE c \in Configs : c.provider = "ollama"
    /\ initialContextGenerated = FALSE
    /\ outputExists = TRUE
    /\ outputDoc = NoDoc
    /\ runs = {}
    /\ started = 0
    /\ writes = 0
    /\ debounceTimer = {}
    /\ timeouts = {}
    /\ isProcessing = FALSE
    /\ intervalNext = -1
    /\ watcherOn = FALSE
    /\ now = 0
    /\ burst = NoBurst
    /\ lastEvent = ""

orchestrator == << pc, exitCode, config, initialContextGenerated, outputExists, outputDoc,
                   runs, started, writes, debounceTimer, timeouts, isProcessing,
                   intervalNext, watcherOn, now, burst, lastEvent >>

\* collectProjectContext(process.cwd(), outputPath, maxTokens), index.ts:70
CollectProjectContext ==
    /\ call.fn = "collectProjectContext"
    /\ ~ret.done
    /\ ret' = Return(collectProjectContext(Listed(FileSystem(call.fs), call.order),
                                           call.intl, cwd,
                                           resolve(call.out), call.budget))
    /\ UNCHANGED << call, prev, orchestrator >>

\* new ContextManager(cwd, outputPath, budget).buildSectionContext(sectionKey), older version
BuildSectionContext1 ==
    /\ call.fn = "buildSectionContext1"
    /\ ~ret.done
    /\ ret' = Return(buildSectionContext1(Listed(FileSystem(call.fs), call.order),
                                          call.sectionKey, call.budget))
    /\ UNCHANGED << call, prev, orchestrator >>

\* new ContextManager(cwd, outputPath, budget).buildSectionContext(sectionKey), newer version
BuildSectionContext2 ==
    /\ call.fn = "buildSectionContext2"
    /\ ~ret.done
    /\ ret' = Return(buildSectionContext2(Listed(FileSystem(call.fs), call.order),
                                          call.sectionKey, call.budget))
    /\ UNCHANGED << call, prev, orchestrator >>

\* new ContextManager(cwd, outputPath, budget).buildInitialContext()
BuildInitialContext ==
    /\ call.fn = "buildInitialContext"
    /\ ~ret.done
    /\ ret' = Return(buildInitialContext(Listed(FileSystem(call.fs), call.order), call.budget))
    /\ UNCHANGED << call, prev, orchestrator >>

\* the next run makes the call again (index.ts:70 is reached by every run that collects),
\* on the same files, with the same budget or a larger one; readdirSync may list the
\* entries in another order
CallAgain ==
    /\ ret.done
    /\ ~prev.ret.done
    /\ prev' = [call |-> call, ret |-> ret]
    /\ \E budget \in Budgets, order \in Orders :
          /\ budget >= call.budget
          /\ order = "reversed" => call.fn = "collectProjectContext"
          /\ call' = [call EXCEPT !.budget = budget, !.order = order]
    /\ ret' = NoRet
    /\ UNCHANGED orchestrator

NextContext ==
    \/ CollectProjectContext
    \/ BuildSectionContext1
    \/ BuildSectionContext2
    \/ BuildInitialContext
    \/ CallAgain

SpecContext == InitContext /\ [][NextContext]_vars

---------------------------------------------------------------------------
(* Properties of the context builders *)

\* the paths of the files of the returned context
ReturnedPaths == { ret.files[i].path : i \in 1..Len(ret.files) }

\* C9: the resolved output path is never among the files returned by the collector
\* nor among the files included by buildSectionContext or buildInitialContext
C9_OutputNeverIncluded ==
    ret.done => resolve(call.out) \notin ReturnedPaths

\* C10: the number of files buildSectionContext includes never exceeds
\* getMaxFilesForSection(sectionKey), whatever the budget and the number of files
C10_SectionFileCap ==
    ret.done =>
       /\ call.fn = "buildSectionContext1" =>
             Len(ret.files) <= getMaxFilesForSection1(call.sectionKey)
       /\ call.fn = "buildSectionContext2" =>
             Len(ret.files) <= getMaxFilesForSection2(call.sectionKey)

\* the limit stopped the loop: as many files as the limit are included, and a file that
\* was not included would still fit the budget
C10_Witness ==
    /\ ret.done
    /\ call.fn = "buildSectionContext2"
    /\ Len(ret.files) = getMaxFilesForSection2(call.sectionKey)
    /\ \E f \in { filesWithTokens(FileSystem(call.fs))[i] :
                     i \in 1..Len(filesWithTokens(FileSystem(call.fs))) } :
          /\ f.path \notin ReturnedPaths
          /\ ret.tokenCount + fileCost2(f) <= call.budget

---------------------------------------------------------------------------
(* Properties of two calls on the same files *)

\* both calls have returned, and readdirSync listed the entries in the same order: the
\* calls differ in the budget at most, that of the first being the smaller
SameCandidates == prev.ret.done /\ ret.done /\ prev.call.order = call.order

\* C11 as stated: with the same ordered candidates and the same section, the larger
\* budget includes at least as many files as the smaller one, in the admission loop of
\* buildSectionContext and in the pack of the collector
C11_MoreBudgetMoreFiles ==
    (SameCandidates /\ call.fn # "buildInitialContext") =>
        Len(prev.ret.files) <= Len(ret.files)

\* C11 amended: with the same ordered candidates and the same section, the larger budget
\* gives a token count at least that of the smaller one, and at least as many files in
\* the admission loop that stops at the first file that does not fit
C11_MoreBudgetMoreTokens ==
    (SameCandidates /\ call.fn # "buildInitialContext") =>
        /\ prev.ret.tokenCount <= ret.tokenCount
        /\ call.fn = "buildSectionContext1" => Len(prev.ret.files) <= Len(ret.files)

\* the loop that stops at the first file that does not fit includes more files with the
\* larger budget and still leaves some out
C11_Witness ==
    /\ SameCandidates
    /\ call.fn = "buildSectionContext1"
    /\ 0 < Len(prev.ret.files)
    /\ Len(prev.ret.files) < Len(ret.files)
    /\ Len(ret.files) < Len(getAllFiles(FileSystem(call.fs)))
    /\ Len(ret.files) < getMaxFilesForSection1(call.sectionKey)

\* the calls of buildSectionContext, of either version
IsSectionCall(c) == c.fn \in {"buildSectionContext1", "buildSectionContext2"}

\* the length of the file bodies of a returned section context
BodiesLength(c, r) ==
    SumSeq([i \in 1..Len(r.files) |->
              IF c.fn = "buildSectionContext1" THEN fileText1(r.files[i])
              ELSE fileText2(r.files[i])])

\* the length of the structural text of a returned section context: what is not a
\* file body
StructureLength(c, r) == r.length - BodiesLength(c, r)

\* C12: whatever the budget (smaller than the structural text too) and the files (none
\* too), the context of buildSectionContext has a header, the statistics and a footer,
\* and they are the same for every budget: only the file bodies depend on the budget
C12_StructureIndependentOfBudget ==
    (ret.done /\ IsSectionCall(call)) =>
        /\ {"header", "stats", "footer"} \subseteq {ret.parts[i] : i \in 1..Len(ret.parts)}
        /\ StructureLength(call, ret) > 0
        /\ SameCandidates =>
              /\ prev.ret.parts = ret.parts
              /\ StructureLength(prev.call, prev.ret) = StructureLength(call, ret)

\* the smaller budget is less than the structural text and no file is included, the
\* larger one includes files
C12_Witness ==
    /\ SameCandidates
    /\ IsSectionCall(call)
    /\ prev.call.budget < estimateTokens(StructureLength(prev.call, prev.ret))
    /\ Len(prev.ret.files) = 0
    /\ Len(ret.files) > 0

\* the tokens of the structural text of a section call: header, statistics and footer
StructureTokens(c) ==
    IF c.fn = "buildSectionContext1"
    THEN estimateTokens(buildSectionHeader1(c.sectionKey))
         + estimateTokens(getProjectStats(FileSystem(c.fs)))
         + estimateTokens(buildSectionFooter1(c.sectionKey))
    ELSE estimateTokens(buildSectionHeader2(c.sectionKey))
         + estimateTokens(getProjectStats(FileSystem(c.fs)))
         + estimateTokens(buildSectionFooter2(c.sectionKey))

\* the tokens of the first k file bodies of a returned section context, wrappers included
BodiesTokens(c, r, k) ==
    SumSeq([i \in 1..k |->
              IF c.fn = "buildSectionContext1" THEN estimateTokens(fileText1(r.files[i]))
              ELSE fileCost2(withTokens(r.files)[i])])

\* C13: the structural text is charged before any file: a file is included only if the
\* tokens of header, statistics and footer, of the files included before it and of the
\* file itself are within the total budget; the context is never empty
C13_StructureChargedFirst ==
    (ret.done /\ IsSectionCall(call)) =>
        /\ ret.length > 0
        /\ \A k \in 1..Len(ret.files) :
              StructureTokens(call) + BodiesTokens(call, ret, k) <= call.budget

\* the files the collector returns when the budget leaves no file out
AllCollected(c) ==
    collectProjectContext(FileSystem(c.fs), c.intl, cwd, resolve(c.out), 30000).files

\* C14: two runs of collectFilesContent on the same directory tree, with the same output
\* path, maxDepth and maxTokens, return the same files in the same order and the same
\* tokenCount, in whatever order readdirSync lists the entries
C14_CollectorIdempotent ==
    (prev.ret.done /\ ret.done /\ call.fn = "collectProjectContext"
        /\ prev.call.budget = call.budget) =>
        /\ prev.ret.files = ret.files
        /\ prev.ret.tokenCount = ret.tokenCount

\* the second run got the entries in another order, several files are returned and the
\* budget left some out
C14_Witness ==
    /\ prev.ret.done /\ ret.done
    /\ call.fn = "collectProjectContext"
    /\ prev.call.budget = call.budget
    /\ prev.call.order # call.order
    /\ Len(ret.files) > 2
    /\ Len(ret.files) < Len(AllCollected(call))

\* C15: collectFilesContent started with a counter of zero returns a tokenCount that is
\* the sum of estimateTokens(content) over the returned files and is at most maxTokens;
\* every returned file has the whole content readFileContent gave, never a part of it
C15_TokenCountIsSum ==
    (ret.done /\ call.fn = "collectProjectContext") =>
        /\ ret.tokenCount = SumSeq([i \in 1..Len(ret.files) |->
                                      estimateTokens(ret.files[i].content)])
        /\ ret.tokenCount <= call.budget
        /\ \A i \in 1..Len(ret.files) :
              ret.files[i].content = readFileContent(FileSystem(call.fs), ret.files[i].path)

\* a file that did not fit was left out although the counter was below maxTokens, and
\* files were included
C15_Witness ==
    /\ ret.done
    /\ call.fn = "collectProjectContext"
    /\ 0 < ret.tokenCount
    /\ ret.tokenCount < call.budget
    /\ Len(ret.files) < Len(AllCollected(call))

\* the basename is on the keep-list of the dotfiles: .gitignore, .npmignore, *.env.example
OnKeepList(name) == name \in {".gitignore", ".npmignore"} \/ EndsWith(name, ".env.example")

\* C16: a file whose basename starts with a dot is not collected unless the basename is
\* on the keep-list, and a file of the keep-list is collected when depth and budget
\* permit (here: in the project directory, with a budget that leaves no file out)
C16_DotfilesUnlessKept ==
    (ret.done /\ call.fn = "collectProjectContext") =>
        /\ \A p \in ReturnedPaths : StartsWith(basename(p), ".") => OnKeepList(basename(p))
        /\ call.budget = 30000 =>
              \A i \in 1..Len(readdirSync(FileSystem(call.fs), cwd)) :
                  LET name == readdirSync(FileSystem(call.fs), cwd)[i]
                  IN  (OnKeepList(name) /\ ~isDirectory(FileSystem(call.fs), join(cwd, name)))
                         => join(cwd, name) \in ReturnedPaths

\* C17: for the section "overview" no file under node_modules is in the result and every
\* file whose path ends in README.md comes before every file whose path does not; the
\* project of README.md, src/index.ts and node_modules/x/index.js gives exactly
\* README.md, then src/index.ts (with the default budget)
C17_OverviewReadmeFirst ==
    (ret.done /\ IsSectionCall(call) /\ call.sectionKey = "overview") =>
        /\ \A p \in ReturnedPaths : ~Includes(p, "node_modules")
        /\ \A i, j \in 1..Len(ret.files) :
              (i < j /\ EndsWith(ret.files[j].path, "README.md"))
                 => EndsWith(ret.files[i].path, "README.md")
        /\ (call.fs = "scenario" /\ call.budget = 30000) =>
              [i \in 1..Len(ret.files) |-> ret.files[i].path]
                 = << "/p/README.md", "/p/src/index.ts" >>

\* the overview of the project of the scenario, whose directory lists README.md last
C17_Witness ==
    /\ ret.done
    /\ IsSectionCall(call)
    /\ call.sectionKey = "overview"
    /\ call.fs = "scenario"
    /\ call.budget = 30000
    /\ readdirSync(FileSystem(call.fs), cwd)[3] = "README.md"
    /\ Len(ret.files) = 2

\* the limit on the number of files of a section call
MaxFiles(c) ==
    IF c.fn = "buildSectionContext1" THEN getMaxFilesForSection1(c.sectionKey)
    ELSE getMaxFilesForSection2(c.sectionKey)

\* the limit the loop of a section call compares the tokens with: the total budget, or
\* Math.floor(totalTokenBudget * 0.9) in the version that keeps a reserve
LoopBudget(c) == IF c.fn = "buildSectionContext1" THEN (c.budget * 9) \div 10 ELSE c.budget

\* the tokens the loop of a section call charges for a file
FileTokens(c, file) ==
    IF c.fn = "buildSectionContext1" THEN estimateTokens(fileText1(file))
    ELSE fileCost2(file)

\* the candidate files of a call of the ContextManager
Candidates(c) ==
    { filesWithTokens(FileSystem(c.fs))[i] : i \in 1..Len(filesWithTokens(FileSystem(c.fs))) }

\* C18: the file loop of buildSectionContext skips a file that does not fit and goes on:
\* unless the limit on the number of files stopped it, every file that is left out did
\* not fit (a file that fits beside the included ones would have fitted at its turn)
C18_SkipAndContinue ==
    (ret.done /\ IsSectionCall(call) /\ Len(ret.files) < MaxFiles(call)) =>
        \A f \in Candidates(call) :
            f.path \notin ReturnedPaths =>
                ret.tokenCount + FileTokens(call, f) > LoopBudget(call)

\* C19: buildSectionContext keeps 10% of the total budget that file bodies never use:
\* once a file body is included the accumulated tokens are at most 0.9 times the total
\* budget, and a file is included whole or not at all
C19_ReserveKept ==
    (ret.done /\ IsSectionCall(call) /\ Len(ret.files) > 0) =>
        /\ ret.tokenCount * 10 <= call.budget * 9
        /\ \A i \in 1..Len(ret.files) :
              ret.files[i].content = FileSystem(call.fs).files[ret.files[i].path].len

\* the files of a section call in the order of prioritizeFilesForSection
Prioritized(c) ==
    IF c.fn = "buildSectionContext1"
    THEN prioritizeFilesForSection1(getAllFiles(FileSystem(c.fs)), c.sectionKey)
    ELSE prioritizeFilesForSection2(filesWithTokens(FileSystem(c.fs)), c.sectionKey)

\* the place of the file of the given path in the sequence sorted
PositionIn(sorted, path) == CHOOSE k \in 1..Len(sorted) : sorted[k].path = path

\* the files follow the order of the sequence sorted
InOrderOf(files, sorted) ==
    \A i \in 1..(Len(files) - 1) :
        PositionIn(sorted, files[i].path) < PositionIn(sorted, files[i + 1].path)

\* C20: the context of buildSectionContext is the header, then the statistics, then the
\* bodies of the included files in the order of prioritizeFilesForSection, then the
\* footer
C20_PartsInOrder ==
    (ret.done /\ IsSectionCall(call) /\ Len(ret.files) > 0) =>
        /\ ret.parts = << "header", "stats", "files", "footer" >>
        /\ InOrderOf(ret.files, Prioritized(call))

---------------------------------------------------------------------------
(* Properties of the walk of the collector *)

\* the tokens of the returned files that the walk reaches before the k-th file of the
\* sequence all, which holds the files of the walk in its order
TokensBefore(r, all, k) ==
    SumSeq([i \in 1..Len(r.files) |->
              IF PositionIn(all, r.files[i].path) < k
              THEN estimateTokens(r.files[i].content) ELSE 0])

\* the k-th file of the walk would not exceed maxTokens when its turn comes
FitsAtTurn(c, r, all, k) ==
    TokensBefore(r, all, k) + estimateTokens(all[k].content) <= c.budget

\* the places in the walk of the files that are left out
LeftOut(r, all) ==
    { k \in 1..Len(all) : \A i \in 1..Len(r.files) : r.files[i].path # all[k].path }

\* every file that is left out did not fit at its turn
EveryFittingFileIncluded(c, r, all) ==
    \A k \in LeftOut(r, all) : ~FitsAtTurn(c, r, all, k)

\* every file that is left out did not fit at its turn, or the counter had reached
\* maxTokens before its turn
EveryFittingFileIncludedBelowLimit(c, r, all) ==
    \A k \in LeftOut(r, all) :
        ~FitsAtTurn(c, r, all, k) \/ TokensBefore(r, all, k) >= c.budget

\* C21 as stated: after a file is skipped because it would exceed maxTokens the walk
\* goes on, and every later file that does not exceed maxTokens at its turn is included,
\* a file of zero tokens too
C21_EveryFittingFileIncluded ==
    (ret.done /\ call.fn = "collectProjectContext") =>
        EveryFittingFileIncluded(call, ret, AllCollected(call))

\* C21 amended: the walk goes on after a skipped file, and every later file that does
\* not exceed maxTokens at its turn is included as long as the counter is below
\* maxTokens; once the counter has reached maxTokens the walk stops
C21_EveryFittingFileIncludedBelowLimit ==
    (ret.done /\ call.fn = "collectProjectContext") =>
        EveryFittingFileIncludedBelowLimit(call, ret, AllCollected(call))

\* a file was skipped with the counter below maxTokens and a later file is included
SkippedThenIncluded(c, r, all) ==
    \E k \in LeftOut(r, all) :
        /\ TokensBefore(r, all, k) < c.budget
        /\ \E i \in 1..Len(r.files) : PositionIn(all, r.files[i].path) > k

C21_Witness ==
    /\ ret.done
    /\ call.fn = "collectProjectContext"
    /\ SkippedThenIncluded(call, ret, AllCollected(call))

---------------------------------------------------------------------------
(* Properties of prioritizeFilesForSection *)

\* the tests of the comparator of a section call
SectionTests(c) ==
    IF c.fn = "buildSectionContext1" THEN tests1(c.sectionKey) ELSE tests2(c.sectionKey)

\* the comparator of a section call ranks the two files equally: every test of its chain
\* holds of both or of neither, and the value its chain ends in is zero
RankedEqually(c, a, b) ==
    /\ \A k \in 1..Len(SectionTests(c)) :
          Test(a.path, SectionTests(c)[k]) = Test(b.path, SectionTests(c)[k])
    /\ c.sectionKey = "architecture" => isMainFile(a.path) = isMainFile(b.path)
    /\ \/ c.fn = "buildSectionContext1" /\ c.sectionKey \in sectionKeys1
       \/ estimateTokens(a.content) = estimateTokens(b.content) /\ a.content = b.content

\* C22: prioritizeFilesForSection is a stable sort: two files that the comparator of the
\* section ranks equally (two paths that end in README.md, two paths that match no
\* test) keep the order they have in the input, the files of getAllFiles
C22_StableSort ==
    (ret.done /\ IsSectionCall(call)) =>
        \A i, j \in 1..Len(ret.files) :
            (i < j /\ RankedEqually(call, ret.files[i], ret.files[j])) =>
                PositionIn(getAllFiles(FileSystem(call.fs)), ret.files[i].path)
                   < PositionIn(getAllFiles(FileSystem(call.fs)), ret.files[j].path)

---------------------------------------------------------------------------
(* Properties of the depth limit and of the failures of the collector *)

\* the default of the parameter maxDepth of collectFilesContent
maxDepthDefault == 5

\* the depth of the directory that holds p, the project directory being at depth 0
DirDepth(p) == Cardinality({i \in Len(cwd) + 2..Len(p) : SubSeq(p, i, i) = "/"})

\* the walk from the project directory down to p meets no ignored entry
NotIgnoredOnTheWay(p, outPath) ==
    /\ ~shouldIgnore(p, outPath)
    /\ \A i \in Len(cwd) + 2..Len(p) :
          SubSeq(p, i, i) = "/" => ~shouldIgnore(SubSeq(p, 1, i - 1), outPath)

IsReturned(r, p) == \E i \in 1..Len(r.files) : r.files[i].path = p

\* C23: with the project directory at depth 0, the collector reads the directories at
\* depth d <= maxDepth and no deeper one: no returned file lies deeper than maxDepth, and
\* a file at depth d <= maxDepth that the walk does not ignore is returned whenever the
\* file system raised no error, the returned counter is below maxTokens and leaves room
\* for it; the counter is the sum of the returned files, so the deeper directories add
\* nothing to it
C23_DepthLimit ==
    (ret.done /\ call.fn = "collectProjectContext") =>
        /\ \A i \in 1..Len(ret.files) : DirDepth(ret.files[i].path) <= maxDepthDefault
        /\ \A p \in DOMAIN FileSystem(call.fs).files :
              ( /\ DirDepth(p) <= maxDepthDefault
                /\ NotIgnoredOnTheWay(p, resolve(call.out))
                /\ ret.parts # << "error" >>
                /\ ret.tokenCount < call.budget
                /\ ret.tokenCount + estimateTokens(readFileContent(FileSystem(call.fs), p))
                      <= call.budget )
              => IsReturned(ret, p)
        /\ ret.tokenCount
             = SumSeq([i \in 1..Len(ret.files) |-> estimateTokens(ret.files[i].content)])

\* a file at depth maxDepth is returned and a file one level deeper, which the walk does
\* not ignore and which the budget has room for, is not
C23_Witness ==
    /\ ret.done
    /\ call.fn = "collectProjectContext"
    /\ \E i \in 1..Len(ret.files) : DirDepth(ret.files[i].path) = maxDepthDefault
    /\ \E p \in DOMAIN FileSystem(call.fs).files :
          /\ DirDepth(p) = maxDepthDefault + 1
          /\ NotIgnoredOnTheWay(p, resolve(call.out))
          /\ ret.tokenCount + estimateTokens(readFileContent(FileSystem(call.fs), p))
                <= call.budget
          /\ ~IsReturned(ret, p)

\* p lies below a directory that cannot be listed or that holds an entry that cannot be
\* stat'ed
InFailingSubtree(fs, p) ==
    \E d \in DOMAIN fs.dirs :
        /\ Len(p) > Len(d) + 1
        /\ SubSeq(p, 1, Len(d) + 1) = d \o "/"
        /\ \/ readdirThrows(fs, d)
           \/ \E k \in 1..Len(fs.dirs[d]) : statThrows(fs, join(d, fs.dirs[d][k]))

\* C24: the failures of the file system are contained: a file that cannot be read is
\* returned with the error placeholder as its content, and a failure to list or to stat
\* inside a directory removes the subtree of that directory only: every other file that
\* the walk does not ignore, within maxDepth, that the budget has room for, is returned
C24_FailuresContained ==
    (ret.done /\ call.fn = "collectProjectContext") =>
        \A p \in DOMAIN FileSystem(call.fs).files :
            ( /\ DirDepth(p) <= maxDepthDefault
              /\ NotIgnoredOnTheWay(p, resolve(call.out))
              /\ ~InFailingSubtree(FileSystem(call.fs), p)
              /\ ret.tokenCount < call.budget
              /\ ret.tokenCount + estimateTokens(readFileContent(FileSystem(call.fs), p))
                    <= call.budget )
            => \E i \in 1..Len(ret.files) :
                  /\ ret.files[i].path = p
                  /\ ret.files[i].content = readFileContent(FileSystem(call.fs), p)

---------------------------------------------------------------------------
(* More properties of the orchestrator *)

\* a run started by the debounce timer is in flight
DebounceRunInFlight(rs) == \E r \in rs : r.trigger = "debounce"

\* C25: a run started by the debounce timer is never cancelled: it stays in flight until
\* its provider call returns or throws, and then writes its document; isProcessing is
\* true exactly while such a run is in flight, and is released when the run completes,
\* with a document or with the error body; while the run is in flight a firing of the
\* debounce timer starts nothing
C25_GuardHeldForRun ==
    [][ /\ isProcessing' <=> DebounceRunInFlight(runs')
        /\ \A r \in runs :
              r.trigger = "debounce" =>
                 \/ r \in runs' /\ isProcessing'
                 \/ /\ \E outcome \in {"ok", "throw"} : ProviderReturns(r, outcome)
                    /\ writes' = writes + 1
                    /\ outputDoc'.by = r.id
                    /\ ~isProcessing'
        /\ (DebounceRunInFlight(runs) /\ DebounceFire) =>
              runs' = runs /\ started' = started /\ timeouts' # timeouts ]_vars

\* a debounce-triggered run is in flight after an earlier run failed, and a firing of
\* the timer has been dropped while it holds the guard
C25_Witness ==
    /\ isProcessing
    /\ DebounceRunInFlight(runs)
    /\ burst.fired /\ burst.heldAtFire /\ burst.runs = 0
    /\ outputDoc.kind = "error"

\* C26: the context of an incremental run holds the statistics of the project, an
\* excerpt of the existing document and at most five files ranked by similarity, and
\* does not hold the full collection
C26_IncrementalPrompt ==
    \A r \in runs :
        r.mode = "incremental" =>
            /\ { "statistics", "excerpt", "similarFiles" } \subseteq contextParts(r.mode)
            /\ "collection" \notin contextParts(r.mode)
            /\ ~r.collected

\* C27: a watcher event for the output file or the configuration file leaves the pending
\* debounce timer as it is, so that the run for the earlier change still starts one
\* debounce delay after that change
C27_ExcludedEventKeepsTimer ==
    [][ \A p \in EventPaths :
          (IsOwnFile(p) /\ lastEvent' = p /\ WatcherEvent(p)) =>
              /\ timeouts' = timeouts
              /\ debounceTimer' = debounceTimer ]_vars

\* C28: the output file is written in the order the runs started: every run in flight
\* started after the run whose document the output file holds, so a run that started
\* earlier never overwrites the document of a run that started later
C28_WritesInStartOrder ==
    outputDoc.kind # "none" => \A r \in runs : r.id > outputDoc.by

\* C29: every watcher event whose path is neither the output file nor the configuration
\* file arms the debounce timer, one debounce delay after the event
C29_OtherFileArms ==
    [][ \A p \in EventPaths :
          (~IsOwnFile(p) /\ lastEvent' = p /\ WatcherEvent(p)) =>
              /\ debounceTimer' = {now + DebounceDelay}
              /\ debounceTimer' \subseteq timeouts' ]_vars

---------------------------------------------------------------------------
(* Properties of the context string of the collector *)

\* the length of the file contents of a returned context
ContentsLength(r) == SumSeq([i \in 1..Len(r.files) |-> r.files[i].content])

\* C30 as claimed: the estimate of the tokens of the string that collectProjectContext
\* returns, directory line, delimiters and contents together, is at most maxTokens
C30_StringWithinCeiling ==
    (ret.done /\ call.fn = "collectProjectContext") =>
        estimateTokens(ret.length) <= call.budget

\* C30 as amended: when the collection does not fail, the token counter of the collector,
\* which is the sum of the estimates of the contents of the returned files, is at most
\* maxTokens, and so is the estimate of the contents taken together; the directory line
\* and the delimiters of the files are in the returned string and are not counted
C30_ContentsWithinCeiling ==
    (ret.done /\ call.fn = "collectProjectContext" /\ ret.parts # << "error" >>) =>
        /\ ret.tokenCount <= call.budget
        /\ ret.tokenCount
             = SumSeq([i \in 1..Len(ret.files) |-> estimateTokens(ret.files[i].content)])
        /\ estimateTokens(ContentsLength(ret)) <= ret.tokenCount
        /\ ret.length = ContentsLength(ret) + 19 + Len(cwd) + 2
                          + SumSeq([i \in 1..Len(ret.files) |->
                                      19 + Len(relative(cwd, ret.files[i].path))])

\* the budget left files out, and the returned string is estimated above maxTokens
C30_Witness ==
    /\ ret.done
    /\ call.fn = "collectProjectContext"
    /\ Len(ret.files) > 0
    /\ Len(ret.files) < Len(AllCollected(call))
    /\ ret.tokenCount <= call.budget
    /\ estimateTokens(ret.length) > call.budget

=============================================================================
